---- MODULE Spec2Model ----
(***************************************************************************)
(* Region-dashboard summary table (mv_region_dashboard) of the cloudburst  *)
(* management system: the two refresh paths of src/db/materialized_views.py *)
(* (refresh_mv_from_db, one INSERT ... SELECT; refresh_mv_from_csv, a      *)
(* pandas recomputation over the flat files) and the statement-level       *)
(* behaviour of DatabaseConnection.execute_update (src/db/connection.py).  *)
(*                                                                         *)
(* Encoding of values:                                                     *)
(*   - a text column holds a string, NULL being the SQL NULL / pandas NA;  *)
(*   - a nullable numeric column holds None (<<>>) or Some(v) (<<v>>);     *)
(*   - a date is a day number, today being the environment's current date; *)
(*   - rainfall amounts are integers counting thousandths of a millimetre; *)
(*     the FLOAT column rainfall_data.rainfall_mm holds the nearest        *)
(*     single-precision value of such an amount, and the DECIMAL(10,2)     *)
(*     columns of the summary table hold whole hundredths (multiples of    *)
(*     10);                                                                *)
(*   - a mean is kept as the record [sum, n, short] until it is stored:    *)
(*     the sum of the decimal amounts, their number, and whether the mean  *)
(*     of the binary values falls short of the mean of the decimals.       *)
(***************************************************************************)
EXTENDS Integers, Sequences, FiniteSets, TLC

VARIABLES
    today,              \* CURDATE() / pd.Timestamp("today"): the current day
    affected_regions,   \* base table, rows in insertion order
    alerts,             \* base table
    resources,          \* base table
    rainfall_data,      \* base table
    distribution_log,   \* base table
    regions_readable,   \* the affected_regions table can be read
    collation,          \* how the base tables' text columns compare
    reload_pc,          \* where a run of reload_alerts.py stands
    next_region_id,     \* AUTO_INCREMENT of affected_regions.region_id
    csv_sheets,         \* the flat files of csv_dir: the five relations as
                        \* the files hold them, and whether
                        \* affected_regions.csv is there
    store,              \* [exists, rows]: committed state of mv_region_dashboard
    clock,              \* the store's NOW()
    output_csv,         \* content of the optional output file, or NotWritten
    call,               \* the refresh invocation in progress (its locals)
    last,               \* the last finished invocation: its result, and a
                        \* record of what it did (history)
    reader              \* what the presentation layer last read (history)

vars == <<today, affected_regions, alerts, resources, rainfall_data,
          distribution_log, regions_readable, collation, reload_pc,
          next_region_id, csv_sheets, store, clock, output_csv, call, last,
          reader>>

\* What the core reads: the base tables and the flat files.
base == <<today, affected_regions, alerts, resources, rainfall_data,
          distribution_log, regions_readable, collation, reload_pc,
          next_region_id, csv_sheets>>

(***************************************************************************)
(* Bounds of the model.                                                    *)
(***************************************************************************)
\* Most rows the four non-Region relations hold together.
MaxRows == 2
\* Last instant of the store's clock.
MaxClock == 1
\* Most alerts in the runs that look at the alerts alone.
MaxAlerts == 3
\* Most readings in the runs that look at the rainfall alone.
MaxReadings == 3
\* Most resources in the runs that look at the resources alone.
MaxResources == 3
\* Most distribution events in the runs that look at the events alone.
MaxEvents == 3

(***************************************************************************)
(* Values.                                                                 *)
(***************************************************************************)
NULL == "NULL"
None == <<>>
Some(v) == <<v>>
IsNone(o) == Len(o) = 0
Get(o) == o[1]

\* The trailing window of the distribution and rainfall aggregates, in days.
WindowDays == 7

RECURSIVE SumSeq(_)
SumSeq(s) == IF s = <<>> THEN 0 ELSE Head(s) + SumSeq(Tail(s))

RECURSIVE MaxSeq(_)
MaxSeq(s) == IF Len(s) = 1 THEN s[1]
             ELSE LET m == MaxSeq(Tail(s)) IN IF s[1] >= m THEN s[1] ELSE m

RECURSIVE Flatten(_)
Flatten(ss) == IF ss = <<>> THEN <<>> ELSE Head(ss) \o Flatten(Tail(ss))

Column(df, c) == [i \in 1..Len(df) |-> df[i][c]]

\* Distinct values of a sequence, in order of first appearance.
RECURSIVE Unique(_)
Unique(s) ==
    IF s = <<>> THEN <<>>
    ELSE LET init == Unique(SubSeq(s, 1, Len(s) - 1))
             x == s[Len(s)]
         IN IF \E i \in 1..Len(init) : init[i] = x THEN init ELSE Append(init, x)

(***************************************************************************)
(* The base data a refresh reads, as one record: Base from the tables of   *)
(* the store, Files from the flat files of csv_dir.                        *)
(***************************************************************************)
Base == [today |-> today, affected_regions |-> affected_regions,
         alerts |-> alerts, resources |-> resources,
         rainfall_data |-> rainfall_data,
         distribution_log |-> distribution_log,
         regions_readable |-> regions_readable]

\* No defect: every file is there and has its columns.
NoDefect == [entity |-> "none", column |-> "none"]

\* pd.to_datetime(..., errors="coerce") of a missing value: NaT, which is
\* >= no date and sorts after every date in a descending sort.
NaT == 0 - 1

\* The files and columns a defect can hit.  The columns that are summed or
\* averaged (quantity_available, quantity_sent, rainfall_mm) and region_id
\* are left whole.
Defects ==
    {[entity |-> e, column |-> "(file)"] :
        e \in {"alerts", "resources", "rainfall_data", "distribution_log"}}
    \cup {[entity |-> "alerts", column |-> c] :
            c \in {"region", "severity", "expiry_date"}}
    \cup {[entity |-> "resources", column |-> "location"]}
    \cup {[entity |-> "rainfall_data", column |-> c] : c \in {"region", "date"}}
    \cup {[entity |-> "distribution_log", column |-> "date_distributed"]}

\* df[c] = pd.NA for a column the file lacks (lines 208-217), and the date
\* parsing that follows (lines 222, 243, 252).
FillMissing(rows, c) ==
    [i \in 1..Len(rows) |->
        [rows[i] EXCEPT ![c] = IF c \in {"expiry_date", "date", "date_distributed"}
                               THEN NaT ELSE NULL]]

\* What _read and the column normalisation make of the files under a defect.
Normalise(d, defect) ==
    IF defect = NoDefect THEN d
    ELSE [d EXCEPT ![defect.entity] =
             IF defect.column = "(file)" THEN <<>>
             ELSE FillMissing(@, defect.column)]

\* The flat files as they are written, and as _read and the column
\* normalisation hand them to the computation.
RawFiles == [today |-> today, affected_regions |-> csv_sheets.affected_regions,
             alerts |-> csv_sheets.alerts, resources |-> csv_sheets.resources,
             rainfall_data |-> csv_sheets.rainfall_data,
             distribution_log |-> csv_sheets.distribution_log,
             regions_readable |-> csv_sheets.regions_readable]

Files == Normalise(RawFiles, csv_sheets.defect)

\* Flat files that hold what the tables hold, with no defect.
Mirror == [affected_regions |-> affected_regions, alerts |-> alerts,
           resources |-> resources, rainfall_data |-> rainfall_data,
           distribution_log |-> distribution_log,
           regions_readable |-> TRUE, defect |-> NoDefect]

\* The region_id AUTO_INCREMENT gives the next row of affected_regions.
AutoIncrement ==
    IF affected_regions = <<>> THEN 1
    ELSE 1 + CHOOSE m \in {affected_regions[i].region_id :
                                i \in 1..Len(affected_regions)} :
                 \A i \in 1..Len(affected_regions) :
                     affected_regions[i].region_id <= m

(***************************************************************************)
(* Binary floating point.  An amount of v thousandths of a millimetre is   *)
(* held by the nearest value m / 2^k whose significand m has 24 bits (the  *)
(* FLOAT column rainfall_data.rainfall_mm) or 53 bits (a pandas float64    *)
(* column).  Such a value is written v + num / 2^k thousandths, with num   *)
(* in -500 .. 500 counting thousandths of 1 / 2^k.  Amounts lie between    *)
(* 0.001 mm and 1000 mm here.                                              *)
(***************************************************************************)
\* e with x standing for the value of d is Only({e : x \in {d}}).
Only(S) == CHOOSE x \in S : TRUE

\* The least k with v * 2^k / 1000 >= 2^23, for v > 0: the scale of the
\* 24-bit value nearest to v / 1000.  1000 being 8 * 125, v * 2^k is
\* compared with 1000 * 2^23 as v * 2^(k - 3) with 125 * 2^23.
BinaryScale(v) ==
    CHOOSE k \in 3..33 : /\ k = 3 \/ v * 2^(k - 4) < 125 * 2^23
                         /\ v * 2^(k - 3) >= 125 * 2^23

\* The value of scale k nearest to v / 1000, where x is v * 2^k modulo
\* 2000 for that scale.
FloatAt(v, k, x) ==
    LET rem == x % 1000
        qodd == x \div 1000 = 1
    IN [k |-> k,
        num |-> IF rem < 500 THEN 0 - rem
                ELSE IF rem > 500 THEN 1000 - rem
                ELSE IF qodd THEN 500 ELSE 0 - 500,
        odd |-> IF rem < 500 THEN qodd
                ELSE IF rem > 500 THEN ~qodd
                ELSE FALSE,
        start |-> v * 2^(k - 3) = 125 * 2^23]

\* The value with a significand of the given number of bits (24 or 53)
\* nearest to v / 1000, ties to the even significand: its scale less
\* bits - 24, its deviation num, whether its significand is odd, and
\* whether v / 1000 is a power of two, below which values lie twice as
\* dense.
NearestFloat(v, bits) ==
    LET \* 2^j modulo 125, for j up to 60.
        Pow2Mod125(j) == IF j <= 30 THEN (2^j) % 125
                         ELSE (((2^30) % 125) * ((2^(j - 30)) % 125)) % 125
        \* 2^k modulo 2000: from k = 4 on it is 16 times 2^(k - 4) modulo 125.
        Pow2Mod2000(k) == IF k < 4 THEN 2^k ELSE 16 * Pow2Mod125(k - 4)
    IN IF v = 0 THEN [k |-> 0, num |-> 0, odd |-> FALSE, start |-> FALSE]
       ELSE Only({FloatAt(v, k, ((v % 2000) * Pow2Mod2000(k + bits - 24)) % 2000) :
                    k \in {BinaryScale(v)}})

\* The largest scale among the amounts vs: the unit 1 / 2^K thousandths in
\* which deviations are counted below (times 1000).
MaxScale(vs) ==
    Only({CHOOSE K \in ks : \A k \in ks : K >= k :
            ks \in {{NearestFloat(vs[i], 24).k : i \in 1..Len(vs)}}})

\* The deviation of the value nearest to v / 1000 in units of scale K.
Deviation(v, K, bits) ==
    Only({f.num * 2^(K - f.k) : f \in {NearestFloat(v, bits)}})

\* The value nearest to v / 1000 being f, the value nearest to
\* v thousandths and D / n units.
RoundNear(f, D, n, K) ==
    LET W == 2^(K - f.k)
        g0 == f.num * W
        z == D - n * g0
        below == z < 0 /\ f.start
        sp == IF below THEN 500 * W ELSE 1000 * W
        odd == IF below THEN FALSE ELSE f.odd
        i == z \div (n * sp)
        r == z - i * n * sp
    IN IF 2 * r < n * sp THEN g0 + i * sp
       ELSE IF 2 * r > n * sp THEN g0 + (i + 1) * sp
       ELSE IF (i % 2 = 1) = odd THEN g0 + i * sp
       ELSE g0 + (i + 1) * sp

\* The result of a floating-point operation whose exact result is
\* v thousandths and D units: the nearest value of the format, ties to the
\* even significand, as its deviation from v in units.
RoundTo(v, D, K, bits) ==
    IF v = 0 THEN D
    ELSE Only({RoundNear(f, D, 1, K) : f \in {NearestFloat(v, bits)}})

\* The sum of the 24-bit values of the amounts vs, as MySQL adds them in
\* double precision (exactly), less the sum of the amounts: its sign is
\* that of this number.
FloatSumDeviation(vs) ==
    Only({Only({SumSeq([i \in 1..Len(w) |-> Deviation(w[i], K, 24)]) :
                  K \in {MaxScale(w)}}) :
            w \in {vs}})

\* pandas' group mean adds the 53-bit values with Kahan's compensated
\* summation (y = x - c; t = sum + y; c = (t - sum) - y; sum = t).  S is the
\* sum of the amounts added so far, s and c the deviations of sum and of
\* the compensation; the result is the deviation of the final sum.
RECURSIVE KahanSum(_, _, _, _, _, _)
KahanSum(vs, i, S, s, c, K) ==
    IF i > Len(vs) THEN s
    ELSE Only({Only({Only({KahanSum(vs, i + 1, S + vs[i], t, a - y, K) :
                             a \in {RoundTo(vs[i], t - s, K, 53)}}) :
                       t \in {RoundTo(S + vs[i], s + y, K, 53)}}) :
                 y \in {RoundTo(vs[i], Deviation(vs[i], K, 53) - c, K, 53)}})

\* The mean of the amounts vs lies half-way between two hundredths.
HalfWay(vs) == (2 * SumSeq(vs) + 10 * Len(vs)) % (20 * Len(vs)) = 0

\* Whether the float64 mean of the amounts vs, their compensated sum
\* divided by their number, falls short of the float64 value nearest to
\* the mean m of the decimals, where that lies half-way between two
\* hundredths (and is a whole number of thousandths).
DoubleMeanShort(vs) ==
    IF ~HalfWay(vs) THEN FALSE
    ELSE Only({Only({Only({RoundNear(f, KahanSum(w, 1, 0, 0, 0, K), Len(w), K)
                              < Deviation(m, K, 53) :
                             f \in {NearestFloat(m, 53)}}) :
                       K \in {MaxScale(Append(w, m))}}) :
                 w \in {vs}, m \in {SumSeq(vs) \div Len(vs)}})

\* A mean: the sum of the decimal amounts, their number, and whether it ends
\* in half a hundredth of which the mean computed in floating point falls
\* short.
Mean(vs, short) ==
    [sum |-> SumSeq(vs), n |-> Len(vs), short |-> HalfWay(vs) /\ short]

(***************************************************************************)
(* refresh_mv_from_csv: the pandas computation (lines 192-287).            *)
(* A DataFrame is a sequence of records.  groupby sorts its groups by key; *)
(* here they stand in order of first appearance, which no later step can   *)
(* tell apart (the groups are only joined onto the regions by key).        *)
(***************************************************************************)
\* _read("affected_regions.csv"): an absent file reads as an empty frame.
ReadRegionsCsv(d) == IF d.regions_readable THEN d.affected_regions ELSE <<>>

sev_rank == [Low |-> 1, Moderate |-> 2, High |-> 3, Critical |-> 4]

\* .map(sev_rank).fillna(0).astype(int)
SevRank(sev) == IF sev \in DOMAIN sev_rank THEN sev_rank[sev] ELSE 0

rank_to_label == <<"Low", "Moderate", "High", "Critical">>

\* mv["max_sev_rank"].map(rank_to_label): NaN and unmapped ranks give NaN.
RankToLabel(o) ==
    IF IsNone(o) THEN NULL
    ELSE IF Get(o) \in DOMAIN rank_to_label THEN rank_to_label[Get(o)]
    ELSE NULL

\* Keys of groupby(col): the non-null values of the column.
GroupKeys(df, col) == Unique(SelectSeq(Column(df, col), LAMBDA k : k # NULL))

\* Mutant of MergeLeft: an inner merge, which drops the unmatched left rows.
MergeInner(left, right, key, nulls) ==
    Flatten([i \in 1..Len(left) |->
        LET m == SelectSeq(right, LAMBDA r : r[key] = left[i][key])
        IN  [j \in 1..Len(m) |-> left[i] @@ m[j]]])

\* left.merge(right, on=key, how="left"): left order kept, one output row per
\* matching right row, and one row of nulls where nothing matches.
MergeLeft(left, right, key, nulls) ==
    Flatten([i \in 1..Len(left) |->
        LET m == SelectSeq(right, LAMBDA r : r[key] = left[i][key])
        IN  IF m = <<>> THEN << left[i] @@ nulls >>
            ELSE [j \in 1..Len(m) |-> left[i] @@ m[j]]])

\* df_alerts[df_alerts["expiry_date"] >= today]
AlertsActive(d) == SelectSeq(d.alerts, LAMBDA a : a.expiry_date >= d.today)

\* Lines 219-232.
AgAlerts(d) ==
    IF d.alerts = <<>> THEN <<>>
    ELSE LET act == AlertsActive(d)
             keys == GroupKeys(act, "region")
         IN [i \in 1..Len(keys) |->
                LET g == SelectSeq(act, LAMBDA a : a.region = keys[i])
                IN [region_name |-> keys[i],
                    alerts_active |-> Some(Len(g)),
                    max_sev_rank |->
                        Some(MaxSeq([j \in 1..Len(g) |-> SevRank(g[j].severity)]))]]

\* Lines 234-239 (dropna=False keeps a group for a null location).
AgRes(d) ==
    LET keys == Unique(Column(d.resources, "location"))
    IN [i \in 1..Len(keys) |->
           LET g == SelectSeq(d.resources, LAMBDA r : r.location = keys[i])
           IN [region_name |-> keys[i],
               total_qty |-> Some(SumSeq(Column(g, "quantity_available")))]]

\* Mutant of Cutoff: the day exactly seven days back falls outside.
CutoffAfter(d) == d.today - WindowDays + 1

\* pd.Timestamp.today().normalize() - pd.Timedelta(days=7)
Cutoff(d) == d.today - WindowDays

\* Mutant of AgDist: every region_id gets the sum of all the events in the
\* window, its own or not.
AgDistUngrouped(d) ==
    LET dist7 == SelectSeq(d.distribution_log,
                           LAMBDA e : e.date_distributed >= Cutoff(d))
        keys == Unique(Column(dist7, "region_id"))
    IN [i \in 1..Len(keys) |->
           [region_id |-> keys[i],
            qty_last_7d |-> Some(SumSeq(Column(dist7, "quantity_sent")))]]

\* Lines 241-248.
AgDist(d) ==
    LET dist7 == SelectSeq(d.distribution_log,
                           LAMBDA e : e.date_distributed >= Cutoff(d))
        keys == Unique(Column(dist7, "region_id"))
    IN [i \in 1..Len(keys) |->
           LET g == SelectSeq(dist7, LAMBDA e : e.region_id = keys[i])
           IN [region_id |-> keys[i],
               qty_last_7d |-> Some(SumSeq(Column(g, "quantity_sent")))]]

\* sort_values(..., ascending=False) on the date within one region: the sort
\* is stable, rows of equal date keep their original order.
RECURSIVE InsertByDateDesc(_, _)
InsertByDateDesc(sorted, r) ==
    IF sorted = <<>> THEN <<r>>
    ELSE IF Head(sorted).date >= r.date
         THEN <<Head(sorted)>> \o InsertByDateDesc(Tail(sorted), r)
         ELSE <<r>> \o sorted

RECURSIVE SortByDateDesc(_)
SortByDateDesc(s) ==
    IF s = <<>> THEN <<>>
    ELSE InsertByDateDesc(SortByDateDesc(SubSeq(s, 1, Len(s) - 1)), s[Len(s)])

\* Lines 253-254: sort by region and date descending, keep each region's first.
LatestRain(d) ==
    LET keys == Unique(Column(d.rainfall_data, "region"))
    IN [i \in 1..Len(keys) |->
           LET g == SortByDateDesc(
                        SelectSeq(d.rainfall_data, LAMBDA r : r.region = keys[i]))
           IN [region_name |-> keys[i], latest_mm |-> Some(g[1].rainfall_mm)]]

\* Lines 255-257: the mean of the readings inside the window.
AgRain7(d) ==
    LET rain7 == SelectSeq(d.rainfall_data, LAMBDA r : r.date >= Cutoff(d))
        keys == GroupKeys(rain7, "region")
    IN [i \in 1..Len(keys) |->
           LET g == SelectSeq(rain7, LAMBDA r : r.region = keys[i])
           IN [region_name |-> keys[i],
               avg_7d |-> Some(Mean(Column(g, "rainfall_mm"),
                                    DoubleMeanShort(Column(g, "rainfall_mm"))))]]

\* Lines 250-260.
RainFrame(d) ==
    IF d.rainfall_data = <<>> THEN <<>>
    ELSE MergeLeft(LatestRain(d), AgRain7(d), "region_name", [avg_7d |-> None])

\* .fillna(default).astype(int)
FillNa(o, default) == IF IsNone(o) THEN default ELSE Get(o)

\* Lines 262-287: the returned DataFrame, with every column it carries.
CsvSummary(d) ==
    LET regs == ReadRegionsCsv(d)
        mv0 == [i \in 1..Len(regs) |->
                   [region_id |-> regs[i].region_id,
                    region_name |-> regs[i].region_name,
                    population |-> regs[i].population,
                    risk_level |-> regs[i].risk_level]]
        mv1 == MergeLeft(mv0, AgAlerts(d), "region_name",
                         [alerts_active |-> None, max_sev_rank |-> None])
        mv2 == MergeLeft(mv1, AgRes(d), "region_name", [total_qty |-> None])
        mv3 == MergeLeft(mv2, AgDist(d), "region_id", [qty_last_7d |-> None])
        mv4 == MergeLeft(mv3, RainFrame(d), "region_name",
                         [latest_mm |-> None, avg_7d |-> None])
    IN [i \in 1..Len(mv4) |->
           [region_id |-> mv4[i].region_id,
            region_name |-> mv4[i].region_name,
            population |-> mv4[i].population,
            risk_level |-> mv4[i].risk_level,
            active_alerts_count |-> FillNa(mv4[i].alerts_active, 0),
            max_sev_rank |-> mv4[i].max_sev_rank,
            total_resources_available |-> FillNa(mv4[i].total_qty, 0),
            distributions_last_7d |-> FillNa(mv4[i].qty_last_7d, 0),
            latest_rainfall_mm |-> mv4[i].latest_mm,
            avg_rainfall_7d |-> mv4[i].avg_7d,
            highest_active_severity |-> RankToLabel(mv4[i].max_sev_rank)]]

(***************************************************************************)
(* refresh_mv_from_db: the INSERT ... SELECT (lines 94-173).               *)
(* A subquery is a sequence of group rows; a table is read in some order,  *)
(* here the order of the base relation, which the result does not depend   *)
(* on except where the statement leaves an order open (GROUP_CONCAT).      *)
(***************************************************************************)
\* COALESCE(x, v)
Coalesce(o, v) == IF IsNone(o) THEN v ELSE Get(o)

SetMax(S) == CHOOSE m \in S : \A x \in S : m >= x

\* The base tables are created outside this code, so their collation is
\* the server's: case-insensitive by default (utf8mb4_0900_ai_ci,
\* utf8mb4_general_ci, latin1_swedish_ci), binary if the schema asks for it.
Collations == {"binary", "case-insensitive"}

\* The weight string of a text value under a case-insensitive collation.
UpperCase(s) ==
    CASE s \in {"r1", "R1"} -> "R1"
      [] s \in {"r2", "R2"} -> "R2"
      [] s \in {"critical", "Critical", "CRITICAL"} -> "CRITICAL"
      [] s \in {"high", "High", "HIGH"} -> "HIGH"
      [] s \in {"moderate", "Moderate", "MODERATE"} -> "MODERATE"
      [] s \in {"low", "Low", "LOW"} -> "LOW"
      [] s \in {"severe", "Severe", "SEVERE"} -> "SEVERE"
      [] s \in {"nan", "NaN", "NAN"} -> "NAN"
      [] OTHER -> s

\* x = y on two text values of the base tables, neither of them NULL: as
\* the collation of the column says.
TextEq(x, y) ==
    IF collation = "binary" THEN x = y ELSE UpperCase(x) = UpperCase(y)

\* CASE al.severity WHEN 'Critical' THEN 4 ... ELSE 0 END (lines 129-135):
\* severity is a VARCHAR column (reload_alerts.py lines 28-31) and the
\* statement has no BINARY or COLLATE, so each WHEN compares as the
\* column's collation says.
SqlSevRank(sev) ==
    CASE sev = NULL -> 0
      [] TextEq(sev, "Critical") -> 4
      [] TextEq(sev, "High") -> 3
      [] TextEq(sev, "Moderate") -> 2
      [] TextEq(sev, "Low") -> 1
      [] OTHER -> 0

\* CASE COALESCE(a.max_sev_rank, 0) WHEN 4 THEN 'Critical' ... ELSE NULL END
\* (lines 108-114)
SqlSevLabel(o) ==
    LET k == Coalesce(o, 0)
    IN CASE k = 4 -> "Critical"
         [] k = 3 -> "High"
         [] k = 2 -> "Moderate"
         [] k = 1 -> "Low"
         [] OTHER -> NULL

\* ON right.rcol = left.lcol; text columns compare as in SQL, a NULL equal
\* to nothing.
OnEq(l, r, lcol, rcol, text) ==
    LET SqlEq(x, y) == x # NULL /\ y # NULL /\ x = y
    IN IF text THEN SqlEq(r[rcol], l[lcol]) ELSE r[rcol] = l[lcol]

\* left LEFT JOIN right ON right.rcol = left.lcol: one row per match, else
\* one row of nulls.
SqlLeftJoin(left, right, lcol, rcol, text, nulls) ==
    Flatten([i \in 1..Len(left) |->
        LET m == SelectSeq(right, LAMBDA r : OnEq(left[i], r, lcol, rcol, text))
        IN  IF m = <<>> THEN << left[i] @@ nulls >>
            ELSE [j \in 1..Len(m) |-> left[i] @@ m[j]]])

\* Subquery a (lines 124-140): active alerts grouped by region.
SqlAlerts(d) ==
    LET act == SelectSeq(d.alerts, LAMBDA al : al.expiry_date >= d.today)
        keys == Unique(Column(act, "region"))
    IN [i \in 1..Len(keys) |->
           LET g == SelectSeq(act, LAMBDA al : al.region = keys[i])
           IN [a_region_name |-> keys[i],
               alerts_active |-> Some(Len(g)),
               max_sev_rank |->
                   Some(SetMax({SqlSevRank(g[j].severity) : j \in 1..Len(g)}))]]

\* Subquery r (lines 141-145): resources grouped by location.
SqlResources(d) ==
    LET keys == Unique(Column(d.resources, "location"))
    IN [i \in 1..Len(keys) |->
           LET g == SelectSeq(d.resources, LAMBDA x : x.location = keys[i])
           IN [r_region_name |-> keys[i],
               total_qty |-> Some(SumSeq(Column(g, "quantity_available")))]]

\* Subquery d (lines 146-151): distributions of the last 7 days by region_id.
SqlDist(d) ==
    LET w == SelectSeq(d.distribution_log,
                 LAMBDA dl : dl.date_distributed >= d.today - WindowDays)
        keys == Unique(Column(w, "region_id"))
    IN [i \in 1..Len(keys) |->
           LET g == SelectSeq(w, LAMBDA dl : dl.region_id = keys[i])
           IN [d_region_id |-> keys[i],
               qty_last_7d |-> Some(SumSeq(Column(g, "quantity_sent")))]]

\* GROUP_CONCAT(rd.rainfall_mm ORDER BY rd.date DESC) for one region (line
\* 160) yields the amounts by descending date; the statement gives no order
\* to readings of equal date, so any reading of the latest date may come
\* first.  These are the amounts SUBSTRING_INDEX(..., ',', 1) can return.
GroupConcatHeads(d, region) ==
    LET g == SelectSeq(d.rainfall_data, LAMBDA rd : rd.region = region)
        top == SetMax({g[i].date : i \in 1..Len(g)})
    IN {g[i].rainfall_mm : i \in {j \in 1..Len(g) : g[j].date = top}}

RainRegions(d) == {d.rainfall_data[i].region : i \in 1..Len(d.rainfall_data)}

\* The orders the engine may give the tied readings: one head per region.
TieOrders(d) ==
    {f \in [RainRegions(d) -> UNION {GroupConcatHeads(d, g) : g \in RainRegions(d)}] :
        \A g \in RainRegions(d) : f[g] \in GroupConcatHeads(d, g)}

\* Subquery x (lines 157-164).
SqlRainLatest(d, order) ==
    LET keys == Unique(Column(d.rainfall_data, "region"))
    IN [i \in 1..Len(keys) |->
           [x_region_name |-> keys[i], latest_mm |-> Some(order[keys[i]])]]

\* Subquery y (lines 165-171): AVG over the FLOAT column rainfall_mm.
SqlRainAvg(d) ==
    LET w == SelectSeq(d.rainfall_data,
                 LAMBDA rd : rd.date >= d.today - WindowDays)
        keys == Unique(Column(w, "region"))
    IN [i \in 1..Len(keys) |->
           LET g == SelectSeq(w, LAMBDA rd : rd.region = keys[i])
           IN [y_region_name |-> keys[i],
               avg_7d |-> Some(Mean(Column(g, "rainfall_mm"),
                              FloatSumDeviation(Column(g, "rainfall_mm")) < 0))]]

\* Subquery rain (lines 152-172): x LEFT JOIN y.
SqlRain(d, order) ==
    SqlLeftJoin(SqlRainLatest(d, order), SqlRainAvg(d),
                "x_region_name", "y_region_name", TRUE,
                [avg_7d |-> None])

\* A mean stored in a DECIMAL(10,2) column: rounded to hundredths, half a
\* hundredth upwards.  A decimal mean that ends in half a hundredth is
\* stored a hundredth lower when the mean computed falls short of it.
Decimal2(mean) ==
    LET T == 2 * mean.sum + 10 * mean.n
    IN IF mean.short THEN 10 * ((T \div (20 * mean.n)) - 1)
       ELSE 10 * (T \div (20 * mean.n))

StoreAvg(o) == IF IsNone(o) THEN None ELSE Some(Decimal2(Get(o)))

\* An amount stored in a DECIMAL(10,2) column.  The store is handed the
\* shortest decimal that reads back as the binary value (the text of the
\* FLOAT in GROUP_CONCAT, the text of the Python float in the parameter),
\* which is the amount itself, and rounds it half a hundredth upwards.
StoreLatest(o) == IF IsNone(o) THEN None ELSE Some(10 * ((Get(o) + 5) \div 10))

\* What the text columns of the joins compare as under the collation: under
\* a case-insensitive one, = and GROUP BY take values that differ in letter
\* case for equal.
Collate(d, coll) ==
    IF coll = "binary" THEN d
    ELSE [d EXCEPT
            !.alerts = [i \in 1..Len(@) |->
                           [@[i] EXCEPT !.region = UpperCase(@)]],
            !.resources = [i \in 1..Len(@) |->
                              [@[i] EXCEPT !.location = UpperCase(@)]],
            !.rainfall_data = [i \in 1..Len(@) |->
                                  [@[i] EXCEPT !.region = UpperCase(@)]]]

\* The base tables as the statement compares their text.
Tables == Collate(Base, collation)

\* The rows the SELECT yields (lines 101-172), stamped with NOW().
SelectRows(d, order, now) ==
    LET ar == d.affected_regions
        j1 == SqlLeftJoin(ar, SqlAlerts(d),
                  "region_name", "a_region_name", TRUE,
                  [alerts_active |-> None, max_sev_rank |-> None])
        j2 == SqlLeftJoin(j1, SqlResources(d),
                  "region_name", "r_region_name", TRUE,
                  [total_qty |-> None])
        j3 == SqlLeftJoin(j2, SqlDist(d),
                  "region_id", "d_region_id", FALSE,
                  [qty_last_7d |-> None])
        j4 == SqlLeftJoin(j3, SqlRain(d, order),
                  "region_name", "x_region_name", TRUE,
                  [latest_mm |-> None, avg_7d |-> None])
    IN [i \in 1..Len(j4) |->
           [region_name |-> j4[i].region_name,
            population |-> j4[i].population,
            risk_level |-> j4[i].risk_level,
            active_alerts_count |-> Coalesce(j4[i].alerts_active, 0),
            highest_active_severity |-> SqlSevLabel(j4[i].max_sev_rank),
            total_resources_available |-> Coalesce(j4[i].total_qty, 0),
            distributions_last_7d |-> Coalesce(j4[i].qty_last_7d, 0),
            latest_rainfall_mm |-> StoreLatest(j4[i].latest_mm),
            avg_rainfall_7d |-> StoreAvg(j4[i].avg_7d),
            last_refreshed |-> now]]

(***************************************************************************)
(* The store: statements on mv_region_dashboard and execute_update.        *)
(* store.rows is the committed content, a set of rows; every statement     *)
(* below is atomic in the store (InnoDB undoes a failed statement whole,   *)
(* CREATE and TRUNCATE commit implicitly).                                 *)
(***************************************************************************)
SeqToSet(s) == {s[i] : i \in 1..Len(s)}

\* PRIMARY KEY (region_name): no two rows of the table share a region_name.
KeyClash(rows, new) ==
    \/ \E i, j \in 1..Len(new) : i # j /\ new[i].region_name = new[j].region_name
    \/ \E i \in 1..Len(new) : \E r \in rows : r.region_name = new[i].region_name

\* The columns of the DDL (lines 63-75), in order.
DdlColumns ==
    <<"region_name", "population", "risk_level", "active_alerts_count",
      "highest_active_severity", "total_resources_available",
      "distributions_last_7d", "latest_rainfall_mm", "avg_rainfall_7d",
      "last_refreshed">>

\* The column list of both INSERT statements (lines 94-100 and 300-305).
InsertColumns ==
    <<"region_name", "population", "risk_level", "active_alerts_count",
      "highest_active_severity", "total_resources_available",
      "distributions_last_7d", "latest_rainfall_mm", "avg_rainfall_7d",
      "last_refreshed">>

\* The store before mv_region_dashboard has been created.
NoTable == [exists |-> FALSE, columns |-> <<>>, rows |-> {}]

\* Mutant of CreateIfNotExists: the table is created anew every time.
CreateOrReplace(st) == [exists |-> TRUE, columns |-> DdlColumns, rows |-> {}]

\* CREATE TABLE IF NOT EXISTS on a table that exists: a warning, no error,
\* and the table stays as it is, whatever its columns.
CreateIfNotExists(st) ==
    IF st.exists THEN st
    ELSE [st EXCEPT !.exists = TRUE, !.columns = DdlColumns]

\* An INSERT that names a column the table does not have is an error.
UnknownColumn(st, cols) == \E i \in 1..Len(cols) : cols[i] \notin SeqToSet(st.columns)

\* What the environment does to a call that executes a statement and
\* commits: nothing; the statement fails with an error the server reports
\* (privilege missing, lock wait timeout); the connection is lost, or was
\* never opened, before the statement; the commit fails with an error; the
\* connection is lost between the statement and the commit.  A fault of
\* the commit happens only if the commit is reached.
Faults == {"none", "error", "lost", "commit_error", "commit_lost"}

\* cursor.execute(stmt): the statement's effect, or an error.
Execute(st, stmt, fault) ==
    CASE stmt.kind = "CREATE" ->
            IF fault \in {"error", "lost"} THEN [ok |-> FALSE, store |-> st]
            ELSE [ok |-> TRUE, store |-> CreateIfNotExists(st)]
      [] stmt.kind = "TRUNCATE" ->
            IF fault \in {"error", "lost"} \/ ~st.exists
            THEN [ok |-> FALSE, store |-> st]
            ELSE [ok |-> TRUE, store |-> [st EXCEPT !.rows = {}]]
      [] stmt.kind = "INSERT" ->
            IF \/ fault \in {"error", "lost"}
               \/ ~st.exists
               \/ UnknownColumn(st, InsertColumns)
               \/ KeyClash(st.rows, stmt.rows)
            THEN [ok |-> FALSE, store |-> st]
            ELSE [ok |-> TRUE,
                  store |-> [st EXCEPT !.rows = @ \cup SeqToSet(stmt.rows)]]

\* DatabaseConnection.execute_update (lines 88-111): execute (lines
\* 100-103) and commit (line 105), True; on an Error of either report it,
\* roll back and return False.  With the connection lost the rollback of
\* the handler raises in its turn, and with no cursor the execute raises an
\* AttributeError the handler does not catch: the call raises and returns
\* nothing.  CREATE and TRUNCATE are committed by the server as they run, so
\* that their effect stays when the commit of line 105 fails; the rows of an
\* INSERT whose commit fails are undone by the rollback, or by the server
\* when the connection is gone.
execute_update(st, stmt, fault) ==
    LET r == Execute(st, stmt, fault)
        committed == r.ok /\ fault \notin {"commit_error", "commit_lost"}
    IN [ret |-> committed,
        store |-> IF r.ok /\ (committed \/ stmt.kind \in {"CREATE", "TRUNCATE"})
                  THEN r.store ELSE st,
        raised |-> fault = "lost" \/ (r.ok /\ fault = "commit_lost")]

\* create_mv_table (lines 61-77)
create_mv_table(st, fault) == execute_update(st, [kind |-> "CREATE"], fault)

\* A TRUNCATE that reports success and clears nothing.
TruncateKeepsRows(st, fault) ==
    [ret |-> fault = "none" /\ st.exists, store |-> st,
     raised |-> fault = "lost" \/ (st.exists /\ fault = "commit_lost")]

\* db.execute_update(f"TRUNCATE TABLE {MV_TABLE_NAME}")
truncate_mv_table(st, fault) == execute_update(st, [kind |-> "TRUNCATE"], fault)

\* The tuple built for one DataFrame row (lines 307-318).
RowTuple(r) ==
    [region_name |-> r.region_name,
     population |-> r.population,
     risk_level |-> r.risk_level,
     active_alerts_count |-> r.active_alerts_count,
     highest_active_severity |-> r.highest_active_severity,
     total_resources_available |-> r.total_resources_available,
     distributions_last_7d |-> r.distributions_last_7d,
     latest_rainfall_mm |-> r.latest_rainfall_mm,
     avg_rainfall_7d |-> r.avg_rainfall_7d]

RowTuples(mv) == [i \in 1..Len(mv) |-> RowTuple(mv[i])]

\* INSERT ... VALUES (%s, ..., NOW()) of one tuple (lines 300-305): the
\* latest amount and the average are rounded into their DECIMAL(10,2)
\* columns, and NOW() is the store's clock when the statement runs.
ValuesRow(t, now) ==
    [t EXCEPT !.latest_rainfall_mm = StoreLatest(@),
              !.avg_rainfall_7d = StoreAvg(@)] @@ [last_refreshed |-> now]

ValuesRows(ts, now) == [i \in 1..Len(ts) |-> ValuesRow(ts[i], now)]

\* db.cursor.executemany(insert_stmt, rows); db.connection.commit() (lines
\* 322-323): one multi-row INSERT and its commit; nothing is executed for
\* an empty list, and the commit alone fails.  ok: neither raised; store:
\* the committed content; pending: the rows inserted and not committed,
\* which stay in the connection's open transaction when the commit fails
\* with an error (nothing here rolls back); lost: the connection is gone.
executemany(st, ts, now, fault) ==
    IF ts = <<>>
    THEN [ok |-> fault = "none", store |-> st, pending |-> {},
          lost |-> fault \in {"lost", "commit_lost"}]
    ELSE LET r == Execute(st, [kind |-> "INSERT", rows |-> ValuesRows(ts, now)], fault)
             committed == r.ok /\ fault \notin {"commit_error", "commit_lost"}
         IN [ok |-> committed,
             store |-> IF committed THEN r.store ELSE st,
             pending |-> IF r.ok /\ fault = "commit_error"
                         THEN SeqToSet(ValuesRows(ts, now)) ELSE {},
             lost |-> fault = "lost" \/ (r.ok /\ fault = "commit_lost")]

\* The summary table without its last_refreshed column.
Strip(rows) ==
    {[c \in DOMAIN r \ {"last_refreshed"} |-> r[c]] : r \in rows}

(***************************************************************************)
(* The output file.  output_csv_path is absent, or names a file inside a   *)
(* directory, or is a bare file name, or names what is a directory         *)
(* already.                                                                *)
(***************************************************************************)
NoPath == ""

OutputPaths ==
    {NoPath, "csv_sheets/mv_region_dashboard.csv", "mv.csv", "./out"}

\* os.path.dirname
DirName(path) ==
    CASE path = "csv_sheets/mv_region_dashboard.csv" -> "csv_sheets"
      [] path = "./out" -> "."
      [] OTHER -> ""

NotWritten == <<"not written">>

\* The output file between to_csv's opening it for writing, which leaves
\* it empty, and its writing the header and the rows.
Opened == <<"opened">>

\* Mutant of WriteOutput: the file is written although no path was given.
WriteOutputAlways(path, mv, out) ==
    [out |-> <<"written", mv>>, raised |-> FALSE, opened |-> FALSE]

\* Lines 290-292: with a path, os.makedirs(os.path.dirname(path),
\* exist_ok=True), which raises FileNotFoundError on the empty string, and
\* mv.to_csv(path), which raises IsADirectoryError on a directory.  out is
\* the output file's content before the call and after it; opened tells
\* that to_csv opened the file, which is empty until out is written.
\* Of the OutputPaths, "./out" is a directory already.
WriteOutput(path, mv, out) ==
    LET IsDirectory == path = "./out"
    IN IF path = NoPath THEN [out |-> out, raised |-> FALSE, opened |-> FALSE]
       ELSE IF DirName(path) = "" \/ IsDirectory
       THEN [out |-> out, raised |-> TRUE, opened |-> FALSE]
       ELSE [out |-> <<"written", mv>>, raised |-> FALSE, opened |-> TRUE]

(***************************************************************************)
(* History kept of a call: steps records each statement issued and whether *)
(* it succeeded, mv the frame it computed, before the rows the table held  *)
(* when the call began, held whether those were the rows of a successful   *)
(* refresh, at_fallback the rows it held when the row-by-row fallback      *)
(* began, row_faults what the environment did to each single-row insert   *)
(* of the fallback, after the operation that ended before it began,       *)
(* faulted whether the environment failed a statement, unreadable whether  *)
(* the Region set could not be read when the call read it, seen what       *)
(* os.path.exists told _read of affected_regions.csv: a file seen and not  *)
(* read was removed in between.                                            *)
(***************************************************************************)
Step(kind, ok) == [kind |-> kind, ok |-> ok]

NoCall == [op |-> "none", cli |-> FALSE, with_db |-> FALSE,
           out_path |-> NoPath, ret_ok |-> FALSE, ret_df |-> <<>>,
           mv |-> <<>>, steps |-> <<>>, before |-> {}, held |-> FALSE,
           at_fallback |-> {}, row_faults |-> <<>>, after |-> "none",
           raised |-> FALSE, faulted |-> FALSE, unreadable |-> FALSE,
           seen |-> FALSE]

AllOk(steps) == \A i \in 1..Len(steps) : steps[i].ok

\* Every statement of the call succeeded and its rows were inserted.
Persisted(l) ==
    /\ l.op \in {"db", "csv"}
    /\ l.with_db
    /\ l.steps # <<>>
    /\ AllOk(l.steps)

\* The record of the call c as it ends: returning ret_ok (refresh_mv_from_db)
\* or ret_df (refresh_mv_from_csv), or raising.
Finished(c, ret_ok, ret_df, raised) ==
    [op |-> c.op, cli |-> c.cli, with_db |-> c.with_db,
     out_path |-> c.out_path, ret_ok |-> ret_ok, ret_df |-> ret_df,
     mv |-> c.mv, steps |-> c.steps, before |-> c.before, held |-> c.held,
     at_fallback |-> c.at_fallback, row_faults |-> c.row_faults,
     after |-> c.after, raised |-> raised, faulted |-> c.faulted,
     unreadable |-> c.unreadable, seen |-> c.seen]

(***************************************************************************)
(* Input domains.  Day 10 is today; 9 is yesterday, 3 is exactly seven     *)
(* days back and 2 is eight days back.                                     *)
(***************************************************************************)
Region1 == [region_id |-> 1, region_name |-> "R1",
            population |-> Some(1000), risk_level |-> "High"]
Region2 == [region_id |-> 2, region_name |-> "R2",
            population |-> None, risk_level |-> NULL]

\* Region sets with unique region_id and unique region_name.
RegionChoices == {<<>>, <<Region1>>, <<Region2>>,
                  <<Region1, Region2>>, <<Region2, Region1>>}

AlertRows ==
    [region : {"R1", "R2"}, severity : {"Critical", "Severe"},
     expiry_date : {9, 10}]
    \cup {[region |-> "r1", severity |-> "Critical", expiry_date |-> 10],
          [region |-> "R1", severity |-> "critical", expiry_date |-> 10]}

ResourceRows == [location : {"R1", "R2", "r1"}, quantity_available : {5}]

DistRows == [region_id : {1, 2}, quantity_sent : {3}, date_distributed : {2, 3}]

RainRows ==
    [region : {"R1"}, date : {2, 9}, rainfall_mm : {10000, 20050}]
    \cup {[region |-> "r1", date |-> 9, rainfall_mm |-> 10000],
          [region |-> "R1", date |-> 9, rainfall_mm |-> 12345]}

(***************************************************************************)
(* A refresh, statement by statement.  Each statement is committed on its  *)
(* own (execute_update commits, CREATE and TRUNCATE commit implicitly), so *)
(* that other clients of the store and of the files act between any two.   *)
(* call is the call in flight, last the record of the latest call ended.   *)
(***************************************************************************)
Idle == [op |-> "idle"]

\* The store's clock advances on its own.
Tick ==
    /\ clock < MaxClock
    /\ clock' = clock + 1
    /\ UNCHANGED <<base, store, output_csv, call, last, reader>>

\* A call of the operation op can start: from a page or a script, or from
\* the command line that has got as far as calling it.
Starting(op) == call = Idle \/ (call.op = "main" /\ call.source = op)

\* The record of a call as it starts.
NewCall(op, with_db, path, mv) ==
    [op |-> op, pc |-> "start", cli |-> call.op = "main", with_db |-> with_db,
     out_path |-> path, mv |-> mv, i |-> 1, steps |-> <<>>,
     before |-> store.rows, held |-> Persisted(last) /\ store.rows # {},
     at_fallback |-> {}, row_faults |-> <<>>, after |-> last.op,
     earlier |-> IF call.op = "main" THEN call.earlier ELSE <<>>,
     faulted |-> FALSE, lost |-> FALSE, pending |-> {}, unreadable |-> FALSE,
     seen |-> op = "csv" /\ csv_sheets.regions_readable]

\* The call c after a statement of the given kind that succeeded or not.
Stepped(c, kind, ok, fault) ==
    [c EXCEPT !.steps = Append(@, Step(kind, ok)),
              !.faulted = @ \/ fault # "none"]

\* Where control goes when the call c ends: back to the command line that
\* made it, which goes on to print, or nowhere.
Resume(c) ==
    IF c.cli THEN [op |-> "main", source |-> "print", earlier |-> c.earlier]
    ELSE Idle

\* refresh_mv_from_db, lines 86-87: create_mv_table, return False if it
\* fails.
DbCreate ==
    /\ Starting("db")
    /\ \E fault \in Faults :
          LET c == create_mv_table(store, fault)
              n == Stepped(NewCall("db", TRUE, NoPath, <<>>), "CREATE", c.ret, fault)
          IN /\ store' = c.store
             /\ IF c.ret
                THEN /\ call' = [n EXCEPT !.pc = "truncate"]
                     /\ last' = NoCall
                ELSE /\ call' = Resume(n)
                     /\ last' = Finished(n, FALSE, <<>>, c.raised)
    /\ reader' = [read |-> FALSE]
    /\ UNCHANGED <<base, clock, output_csv>>

\* refresh_mv_from_db, lines 90-91: TRUNCATE, return False if it fails.
DbTruncate ==
    /\ call.op = "db" /\ call.pc = "truncate"
    /\ \E fault \in Faults :
          LET t == truncate_mv_table(store, fault)
              n == Stepped(call, "TRUNCATE", t.ret, fault)
          IN /\ store' = t.store
             /\ IF t.ret
                THEN /\ call' = [n EXCEPT !.pc = "insert"]
                     /\ last' = last
                ELSE /\ call' = Resume(n)
                     /\ last' = Finished(n, FALSE, <<>>, t.raised)
    /\ UNCHANGED <<base, clock, output_csv, reader>>

\* refresh_mv_from_db, lines 94-175: the INSERT ... SELECT, whose result is
\* the call's result.  It reads the base tables when it runs and is an
\* error if affected_regions cannot be read.
DbInsert ==
    /\ call.op = "db" /\ call.pc = "insert"
    /\ \E order \in TieOrders(Tables) :
       \E rows \in {SelectRows(Tables, order, clock)} :
       \E fault \in Faults :
       \E i \in {execute_update(store, [kind |-> "INSERT", rows |-> rows],
                                IF fault # "lost" /\ ~regions_readable
                                THEN "error" ELSE fault)} :
          LET n == [Stepped(call, "INSERT", i.ret, fault)
                       EXCEPT !.unreadable = ~regions_readable]
          IN /\ store' = i.store
             /\ call' = Resume(n)
             /\ last' = Finished(n, i.ret, <<>>, i.raised)
    /\ UNCHANGED <<base, clock, output_csv, reader>>

\* refresh_mv_from_csv, lines 193-199: the call starts and _read looks for
\* affected_regions.csv with os.path.exists (line 195); what it finds is
\* kept in seen.  The step is taken on its own where the environment may
\* act on the file before line 197 reads it.
CsvExists ==
    /\ Starting("csv")
    /\ \E with_db \in (IF call = Idle THEN BOOLEAN ELSE {FALSE}),
          path \in (IF call = Idle THEN OutputPaths ELSE {call.out_path}) :
          call' = [NewCall("csv", with_db, path, <<>>) EXCEPT !.pc = "read"]
    /\ last' = NoCall
    /\ reader' = [read |-> FALSE]
    /\ UNCHANGED <<base, store, clock, output_csv>>

\* refresh_mv_from_csv, lines 178-292: read the files, compute the frame
\* and, if a path is given, open the output file for writing; without a
\* path and without a db, return.  The command line passes its
\* --output-csv and no db.  _read returns an empty frame for a file that
\* os.path.exists did not see, whether or not it is there by now, and
\* pd.read_csv raises FileNotFoundError on a file seen and removed since
\* (lines 195-197): the call raises before it writes or sends anything.
\* The step goes on from CsvExists, or starts the call itself, the check
\* and the read then following each other with nothing in between.
CsvCompute ==
    /\ Starting("csv") \/ (call.op = "csv" /\ call.pc = "read")
    /\ \E seen \in {IF call.op = "csv" THEN call.seen
                    ELSE csv_sheets.regions_readable} :
       \E mv \in {CsvSummary([Files EXCEPT !.regions_readable = seen])} :
       \E c \in (IF call.op = "csv" THEN {call}
                 ELSE {NewCall("csv", with_db, path, <<>>) :
                          with_db \in (IF call = Idle THEN BOOLEAN ELSE {FALSE}),
                          path \in (IF call = Idle THEN OutputPaths
                                    ELSE {call.out_path})}) :
          LET removed == seen /\ ~csv_sheets.regions_readable
              w == WriteOutput(c.out_path, mv, output_csv)
              n == [c EXCEPT !.mv = IF removed THEN <<>> ELSE mv,
                             !.unreadable = ~seen \/ removed]
          IN IF removed
             THEN /\ output_csv' = output_csv
                  /\ call' = Resume(n)
                  /\ last' = Finished(n, FALSE, <<>>, TRUE)
             ELSE /\ output_csv' = IF w.opened THEN Opened ELSE w.out
                  /\ IF w.raised
                     THEN /\ call' = Resume(n)
                          /\ last' = Finished(n, FALSE, <<>>, TRUE)
                     ELSE IF w.opened
                     THEN /\ call' = [n EXCEPT !.pc = "write"]
                          /\ last' = NoCall
                     ELSE IF c.with_db
                     THEN /\ call' = [n EXCEPT !.pc = "create"]
                          /\ last' = NoCall
                     ELSE /\ call' = Resume(n)
                          /\ last' = Finished(n, FALSE, mv, FALSE)
    /\ reader' = IF call.op = "csv" THEN reader ELSE [read |-> FALSE]
    /\ UNCHANGED <<base, store, clock>>

\* refresh_mv_from_csv, line 292: to_csv writes the header and the rows of
\* the frame into the file it has opened and closes it; without a db,
\* return.
CsvWriteOutput ==
    /\ call.op = "csv" /\ call.pc = "write"
    /\ output_csv' = WriteOutput(call.out_path, call.mv, output_csv).out
    /\ IF call.with_db
       THEN /\ call' = [call EXCEPT !.pc = "create"]
            /\ last' = last
       ELSE /\ call' = Resume(call)
            /\ last' = Finished(call, FALSE, call.mv, FALSE)
    /\ UNCHANGED <<base, store, clock, reader>>

\* refresh_mv_from_csv, line 296: create_mv_table(db), result dropped.
CsvCreate ==
    /\ call.op = "csv" /\ call.pc = "create"
    /\ \E fault \in Faults :
          LET c == create_mv_table(store, fault)
              n == Stepped(call, "CREATE", c.ret, fault)
          IN /\ store' = c.store
             /\ IF c.raised
                THEN /\ call' = Resume(n)
                     /\ last' = Finished(n, FALSE, <<>>, TRUE)
                ELSE /\ call' = [n EXCEPT !.pc = "truncate"]
                     /\ last' = last
    /\ UNCHANGED <<base, clock, output_csv, reader>>

\* Mutant of CsvTruncate: the TRUNCATE empties the alerts table as well.
CsvTruncateAlerts ==
    /\ call.op = "csv" /\ call.pc = "truncate"
    /\ \E fault \in Faults :
          LET t == truncate_mv_table(store, fault)
              n == Stepped(call, "TRUNCATE", t.ret, fault)
          IN /\ store' = t.store
             /\ IF t.raised
                THEN /\ call' = Resume(n)
                     /\ last' = Finished(n, FALSE, <<>>, TRUE)
                ELSE /\ call' = [n EXCEPT !.pc = "batch"]
                     /\ last' = last
    /\ alerts' = <<>>
    /\ UNCHANGED <<today, affected_regions, resources, rainfall_data,
                   distribution_log, regions_readable, collation, reload_pc,
                   next_region_id, csv_sheets>>
    /\ UNCHANGED <<clock, output_csv, reader>>

\* refresh_mv_from_csv, line 297: TRUNCATE, result dropped.
CsvTruncate ==
    /\ call.op = "csv" /\ call.pc = "truncate"
    /\ \E fault \in Faults :
          LET t == truncate_mv_table(store, fault)
              n == Stepped(call, "TRUNCATE", t.ret, fault)
          IN /\ store' = t.store
             /\ IF t.raised
                THEN /\ call' = Resume(n)
                     /\ last' = Finished(n, FALSE, <<>>, TRUE)
                ELSE /\ call' = [n EXCEPT !.pc = "batch"]
                     /\ last' = last
    /\ UNCHANGED <<base, clock, output_csv, reader>>

\* refresh_mv_from_csv, lines 321-325: executemany and commit; on an
\* exception of either go on to the row-by-row fallback, which has nothing
\* to do for an empty frame.  The server that fails a commit keeps the
\* transaction open or has rolled it back.
CsvBatch ==
    /\ call.op = "csv" /\ call.pc = "batch"
    /\ \E fault \in Faults :
       \E b \in {executemany(store, RowTuples(call.mv), clock, fault)} :
       \E pending \in {b.pending, {}} :
          LET n == Stepped(call, "BATCH", b.ok, fault)
          IN /\ store' = b.store
             /\ IF b.ok \/ call.mv = <<>>
                THEN /\ call' = Resume(n)
                     /\ last' = Finished(n, FALSE, call.mv, FALSE)
                ELSE /\ call' = [n EXCEPT !.pc = "fallback", !.lost = b.lost,
                                          !.pending = pending,
                                          !.at_fallback = store.rows]
                     /\ last' = last
    /\ UNCHANGED <<base, clock, output_csv, reader>>

\* refresh_mv_from_csv, lines 326-327: one execute_update per tuple, its
\* result dropped.  A connection the batch found lost is lost still.  The
\* statement runs in the connection's transaction, which holds the rows of
\* a batch whose commit failed until the first rollback: it commits them
\* with its own row, or its rollback drops them.
CsvFallbackRow ==
    /\ call.op = "csv" /\ call.pc = "fallback"
    /\ \E fault \in (IF call.lost THEN {"lost"} ELSE Faults) :
          LET ts == RowTuples(call.mv)
              r == execute_update([store EXCEPT !.rows = @ \cup call.pending],
                       [kind |-> "INSERT", rows |-> <<ValuesRow(ts[call.i], clock)>>],
                       fault)
              n == [Stepped(call, "ROW", r.ret, fault)
                       EXCEPT !.pending = {}, !.row_faults = Append(@, fault)]
          IN /\ store' = IF r.ret THEN r.store ELSE store
             /\ IF r.raised
                THEN /\ call' = Resume(n)
                     /\ last' = Finished(n, FALSE, <<>>, TRUE)
                ELSE IF call.i = Len(ts)
                THEN /\ call' = Resume(n)
                     /\ last' = Finished(n, FALSE, call.mv, FALSE)
                ELSE /\ call' = [n EXCEPT !.i = @ + 1]
                     /\ last' = last
    /\ UNCHANGED <<base, clock, output_csv, reader>>

(***************************************************************************)
(* Aggregation runs: the base data are drawn once and stay, the flat files *)
(* hold what the tables hold, and the refreshes run one after another on a *)
(* store that fails no statement, each with a db and without output file.  *)
(* The store compares text as its collation says.                          *)
(***************************************************************************)
AggTables ==
    /\ today = 10
    /\ affected_regions \in RegionChoices
    /\ \E na, nr, nd, nn \in 0..MaxRows :
          /\ na + nr + nd + nn <= MaxRows
          /\ alerts \in [1..na -> AlertRows]
          /\ resources \in [1..nr -> ResourceRows]
          /\ distribution_log \in [1..nd -> DistRows]
          /\ rainfall_data \in [1..nn -> RainRows]
    /\ regions_readable = TRUE
    /\ collation \in Collations
    /\ reload_pc = "idle"
    /\ next_region_id = AutoIncrement

\* Nothing has been called yet: no summary table, no output file.
Unstarted ==
    /\ store = NoTable
    /\ clock = 0
    /\ output_csv = NotWritten
    /\ call = Idle
    /\ last = NoCall
    /\ reader = [read |-> FALSE]

InitAgg == AggTables /\ csv_sheets = Mirror /\ Unstarted

\* The call c is made with a db and without output file, from a script, and
\* the environment has failed none of its statements.
Plain ==
    LET PlainCall(c) ==
            c.op \in {"db", "csv"}
            => ~c.faulted /\ c.with_db /\ c.out_path = NoPath /\ ~c.cli
    IN PlainCall(call) /\ PlainCall(last)

NextAgg ==
    \/ DbCreate /\ Plain'
    \/ DbTruncate /\ Plain'
    \/ DbInsert /\ Plain'
    \/ CsvCompute /\ Plain'
    \/ CsvCreate /\ Plain'
    \/ CsvTruncate /\ Plain'
    \/ CsvBatch /\ Plain'

SpecAgg == InitAgg /\ [][NextAgg]_vars

(***************************************************************************)
(* Claims about the aggregation (checked under SpecAgg).                   *)
(***************************************************************************)
RegionNames(d) == {d.affected_regions[i].region_name : i \in 1..Len(d.affected_regions)}

\* rows (a sequence) holds exactly one row per region of regs, no more.
OnePerRegion(rows, regs) ==
    /\ Len(rows) = Len(regs)
    /\ \A i \in 1..Len(regs) :
          Cardinality({j \in 1..Len(rows) :
                          rows[j].region_name = regs[i].region_name}) = 1

\* What the last finished call computed or stored, as a set of rows that
\* carry the summary columns.
SummaryRows ==
    IF last.op = "csv" THEN SeqToSet(last.ret_df)
    ELSE IF last.op = "db" /\ last.ret_ok THEN store.rows
    ELSE {}

KnownSeverities == {"Low", "Moderate", "High", "Critical"}

HasActiveAlert(name) ==
    \E i \in 1..Len(alerts) :
        alerts[i].region = name /\ alerts[i].expiry_date >= today

HasActiveKnownAlert(name) ==
    \E i \in 1..Len(alerts) :
        /\ alerts[i].region = name
        /\ alerts[i].expiry_date >= today
        /\ alerts[i].severity \in KnownSeverities

\* C2 as stated: in every summary row highest_active_severity is non-null
\* exactly when active_alerts_count > 0, whatever the alerts' severities.
C2_AsStated ==
    \A r \in SummaryRows :
        (r.highest_active_severity # NULL) <=> (r.active_alerts_count > 0)

\* The latest call compared text letter for letter: pandas always does, the
\* store where its collation is binary.
ExactText == last.op = "csv" \/ collation = "binary"

\* The part of C2 that holds, where text is compared letter for letter: in
\* every summary row highest_active_severity is non-null exactly when the
\* region has an active alert whose severity is one of Low, Moderate, High,
\* Critical; a non-null severity implies a positive active_alerts_count,
\* and the count is positive exactly when the region has an active alert.
C2_SeverityIffKnownWhereExact ==
    ExactText =>
        \A r \in SummaryRows :
            /\ (r.highest_active_severity # NULL) <=> HasActiveKnownAlert(r.region_name)
            /\ (r.highest_active_severity # NULL) => (r.active_alerts_count > 0)
            /\ (r.active_alerts_count > 0) <=> HasActiveAlert(r.region_name)

RegionIdOf(name) ==
    (CHOOSE i \in 1..Len(affected_regions) :
        affected_regions[i].region_name = name)

HasResource(name) ==
    \E i \in 1..Len(resources) : resources[i].location = name

HasRecentDistribution(name) ==
    \E i \in 1..Len(distribution_log) :
        /\ distribution_log[i].region_id = affected_regions[RegionIdOf(name)].region_id
        /\ distribution_log[i].date_distributed >= today - WindowDays

\* The row r has the three counts 0 and a null severity.
AllDefaults(r) ==
    /\ r.active_alerts_count = 0
    /\ r.total_resources_available = 0
    /\ r.distributions_last_7d = 0
    /\ r.highest_active_severity = NULL

\* The region of the row r has no active alert, no resource whose location
\* is its name and no distribution event of its region_id in the window.
NothingMatches(r) ==
    /\ ~HasActiveAlert(r.region_name)
    /\ ~HasResource(r.region_name)
    /\ ~HasRecentDistribution(r.region_name)

\* C3 as stated (default-zero): a region with no active alert, no resource
\* whose location equals its region_name and no distribution event of its
\* region_id in the 7-day window has the three counts 0 and a null
\* severity; and the three counts are numbers (never null) in every
\* summary row.
C3_DefaultZero ==
    \A r \in SummaryRows :
        /\ r.active_alerts_count \in Nat
        /\ r.total_resources_available \in Nat
        /\ r.distributions_last_7d \in Nat
        /\ NothingMatches(r) => AllDefaults(r)

\* The part of C3 that holds: the three counts are never null, and the
\* defaults stand where text is compared letter for letter.
C3_DefaultZeroWhereExact ==
    \A r \in SummaryRows :
        /\ r.active_alerts_count \in Nat
        /\ r.total_resources_available \in Nat
        /\ r.distributions_last_7d \in Nat
        /\ (ExactText /\ NothingMatches(r)) => AllDefaults(r)

\* The tables the paths can leave on the base data as they are, the column
\* last_refreshed apart: refresh_mv_from_db one for each order the engine
\* may give readings of equal date, refresh_mv_from_csv one.
DbTables ==
    {Strip(SeqToSet(SelectRows(Tables, order, clock))) : order \in TieOrders(Tables)}

CsvTable == Strip(SeqToSet(ValuesRows(RowTuples(CsvSummary(Files)), clock)))

\* C4 as stated (source-equivalence): with flat files that hold what the
\* tables hold, the table a path has just rebuilt is, in every column but
\* last_refreshed, the table the other path leaves.
C4_SourceEquivalence ==
    (call = Idle /\ Persisted(last) /\ csv_sheets = Mirror)
    => /\ last.op = "csv" => \A t \in DbTables : Strip(store.rows) = t
       /\ last.op = "db" => Strip(store.rows) = CsvTable

\* C10 as stated (idempotence): what a call has returned and left in the
\* table is, in every column but last_refreshed, what a second call of the
\* same operation on the unchanged base data returns and leaves.
C10_Idempotence ==
    (call = Idle /\ Persisted(last))
    => /\ last.op = "db" => \A t \in DbTables : Strip(store.rows) = t
       /\ last.op = "csv" => /\ Strip(store.rows) = CsvTable
                             /\ last.ret_df = CsvSummary(Files)

(***************************************************************************)
(* Orchestration runs: a refresh proceeds statement by statement, each     *)
(* statement committed on its own by execute_update; the environment may   *)
(* fail any statement, make the Region set unreadable, and read the        *)
(* summary table between any two statements.                               *)
(***************************************************************************)
\* The seed scenario but for its regions: one active Critical alert, one
\* resource, one distribution event seven days back and one reading, all of
\* R1.
SeedData ==
    /\ today = 10
    /\ alerts = <<[region |-> "R1", severity |-> "Critical", expiry_date |-> 10]>>
    /\ resources = <<[location |-> "R1", quantity_available |-> 5]>>
    /\ distribution_log = <<[region_id |-> 1, quantity_sent |-> 3,
                             date_distributed |-> 3]>>
    /\ rainfall_data = <<[region |-> "R1", date |-> 9, rainfall_mm |-> 10000]>>
    /\ regions_readable = TRUE
    /\ collation = "case-insensitive"
    /\ reload_pc = "idle"
    /\ next_region_id = AutoIncrement
    /\ csv_sheets = Mirror

\* The seed scenario: the one region R1, in the tables and in the files
\* alike.
Init == affected_regions = <<Region1>> /\ SeedData /\ Unstarted

\* The environment takes the Region set away, from the store (the
\* affected_regions table is dropped or locked) or from csv_dir (the file
\* affected_regions.csv is removed), and puts it back.
LoseRegions ==
    /\ \/ /\ regions_readable
          /\ regions_readable' = FALSE
          /\ UNCHANGED csv_sheets
       \/ /\ csv_sheets.regions_readable
          /\ csv_sheets' = [csv_sheets EXCEPT !.regions_readable = FALSE]
          /\ UNCHANGED regions_readable
    /\ UNCHANGED <<today, affected_regions, alerts, resources, rainfall_data,
                   distribution_log, collation, reload_pc, next_region_id,
                   store, clock, output_csv, call, last, reader>>

RestoreRegions ==
    /\ \/ /\ ~regions_readable
          /\ regions_readable' = TRUE
          /\ UNCHANGED csv_sheets
       \/ /\ ~csv_sheets.regions_readable
          /\ csv_sheets' = [csv_sheets EXCEPT !.regions_readable = TRUE]
          /\ UNCHANGED regions_readable
    /\ UNCHANGED <<today, affected_regions, alerts, resources, rainfall_data,
                   distribution_log, collation, reload_pc, next_region_id,
                   store, clock, output_csv, call, last, reader>>

\* The refresh has cleared the table and has not yet committed its insert.
MidFlight ==
    /\ call.op \in {"db", "csv"}
    /\ call.pc \in {"insert", "batch"}
    /\ call.steps[Len(call.steps)] = Step("TRUNCATE", TRUE)

\* Another client of the store reads the summary table through
\* DatabaseConnection.execute_query (lines 64-86): the number of its rows,
\* or None when the query is an error, as it is while the table does not
\* exist.  reader is what the latest read saw, and is reset when a refresh
\* starts.
ReaderRead ==
    /\ reader' = [read |-> TRUE,
                  of |-> "table",
                  result |-> IF store.exists THEN Some(Cardinality(store.rows))
                             ELSE None,
                  mid_flight |-> /\ MidFlight
                                 /\ call.held
                                 /\ ~call.unreadable
                                 /\ regions_readable
                                 /\ affected_regions # <<>>
                                 /\ (call.op = "csv" => call.mv # <<>>)]
    /\ UNCHANGED <<base, store, clock, output_csv, call, last>>

\* The Database Explorer page (6_Database_Explorer.py lines 231-312) shows
\* the output file csv_sheets/mv_region_dashboard.csv: a notice (st.info)
\* while the file is not there; the number of its rows (st.caption) when
\* pd.read_csv has read it; the error of the except branch (st.error)
\* when pd.read_csv raises, as it does with EmptyDataError on the empty
\* file a refresh has opened and not yet written.
ViewMaterializedCsv ==
    /\ reader' = [read |-> TRUE,
                  of |-> "file",
                  shows |-> CASE output_csv = NotWritten -> "info"
                              [] output_csv = Opened -> "error"
                              [] OTHER -> "caption",
                  result |-> IF output_csv \in {NotWritten, Opened} THEN None
                             ELSE Some(Len(output_csv[2])),
                  mid_flight |-> output_csv = Opened]
    /\ UNCHANGED <<base, store, clock, output_csv, call, last>>

Next ==
    \/ LoseRegions \/ RestoreRegions
    \/ DbCreate \/ DbTruncate \/ DbInsert
    \/ CsvExists \/ CsvCompute \/ CsvWriteOutput
    \/ CsvCreate \/ CsvTruncate \/ CsvBatch \/ CsvFallbackRow
    \/ ReaderRead \/ ViewMaterializedCsv

Spec == Init /\ [][Next]_vars

(***************************************************************************)
(* Claims about the orchestration (checked under Spec).                    *)
(***************************************************************************)
\* The latest call has returned and wrote to the store.
Returned == call = Idle /\ last.op \in {"db", "csv"} /\ last.with_db

\* C5 as stated: on both store-writing paths, when the CREATE of the summary
\* table fails the refresh issues no further statement (no TRUNCATE, no
\* INSERT) and the table's rows are those it held before the call.
C5_SchemaFailureAborts ==
    (/\ Returned
     /\ last.steps # <<>>
     /\ last.steps[1] = Step("CREATE", FALSE))
    => /\ Len(last.steps) = 1
       /\ store.rows = last.before

\* A step of refresh_mv_from_db taken while the affected_regions table
\* cannot be read, and a step of a refresh_mv_from_csv call that found
\* affected_regions.csv absent when it read the files.
DbStepUnreadable ==
    /\ ~regions_readable
    /\ call'.op = "db" \/ (last' # last /\ last'.op = "db")

CsvStepUnreadable ==
    \/ call'.op = "csv" /\ call'.unreadable
    \/ last' # last /\ last'.op = "csv" /\ last'.unreadable

\* C6 as stated: when the Region set cannot be read, no step of the refresh
\* changes the rows of the summary table or the output file, a
\* refresh_mv_from_db that returns returns False, and a refresh_mv_from_csv
\* that returns returns no rows.
C6_SourceUnavailable ==
    [][(DbStepUnreadable \/ CsvStepUnreadable) =>
          /\ store'.rows = store.rows
          /\ output_csv' = output_csv
          /\ (last' # last /\ last'.op = "db") => ~last'.ret_ok
          /\ (last' # last /\ last'.op = "csv") => last'.ret_df = <<>>]_vars

\* C7 as stated: a reader that reads the summary table after a refresh has
\* cleared it and before the refresh has committed its insert, when the
\* table held the rows of a successful refresh and the Region set is
\* non-empty, sees at least one row.
C7_AtomicReplacement ==
    (reader.read /\ reader.of = "table" /\ reader.mid_flight)
    => reader.result # None /\ Get(reader.result) > 0

\* Some TRUNCATE or INSERT of the call failed.
WriteFailed(steps) ==
    \E i \in 1..Len(steps) :
        steps[i].kind \in {"TRUNCATE", "INSERT", "BATCH", "ROW"} /\ ~steps[i].ok

\* What refresh_mv_from_csv returns when every statement succeeds.
FullyPersistedResult == CsvSummary(Files)

\* C8 as stated: when the TRUNCATE or an INSERT of a refresh failed, the
\* call has raised, or refresh_mv_from_db has returned False and what
\* refresh_mv_from_csv has returned differs from what it returns when every
\* statement succeeds.
C8_WriteFailureReported ==
    (Returned /\ WriteFailed(last.steps))
    => \/ last.raised
       \/ /\ last.op = "db" => ~last.ret_ok
          /\ last.op = "csv" => last.ret_df # FullyPersistedResult

(***************************************************************************)
(* Runs with the pages at work.  The pages write to the base tables        *)
(* through execute_update, each write committed on its own, while a        *)
(* refresh may stand between two of its statements; no code writes the     *)
(* flat files.  last tells of the latest call made on the base tables as   *)
(* they are: a write to them resets it.                                    *)
(***************************************************************************)
BaseTables == {"affected_regions", "alerts", "resources", "rainfall_data",
               "distribution_log"}

\* The base tables hold at most this many rows between them.
MaxBaseRows == 2

\* AUTO_INCREMENT of affected_regions.region_id goes no further.
MaxRegionId == 2

\* _get_distinct_options (6_Database_Explorer.py lines 49-72).
\* QueryHelper has no get_distinct_values, so that the try of lines 51-58
\* ends in its except; the options are the distinct non-null values of the
\* column in the flat file, or the fallback list when the file is absent,
\* lacks the column or holds no value.
get_distinct_options(table, column, fallback) ==
    LET rows == IF table = "affected_regions" /\ ~csv_sheets.regions_readable
                THEN <<>> ELSE Files[table]
        values == {rows[i][column] : i \in 1..Len(rows)} \ {NULL}
    IN IF values # {} THEN values ELSE fallback

\* The record a form submits (6_Database_Explorer.py lines 133-179): the
\* fields a number_input or a selectbox fills are never null, and option
\* is what was picked in the selectbox.
NewRecord(table, option) ==
    CASE table = "affected_regions" ->
            [region_id |-> next_region_id, region_name |-> "R2",
             population |-> Some(0), risk_level |-> option]
      [] table = "alerts" ->
            [region |-> "R1", severity |-> option, expiry_date |-> today + 7]
      [] table = "resources" -> [location |-> "R1", quantity_available |-> 5]
      [] table = "rainfall_data" ->
            [region |-> "R1", date |-> today, rainfall_mm |-> 20050]
      [] table = "distribution_log" ->
            [region_id |-> 1, quantity_sent |-> 4, date_distributed |-> today]

\* A committed write that leaves the table with the given rows.
WriteTable(table, rows) ==
    /\ affected_regions' = IF table = "affected_regions" THEN rows ELSE affected_regions
    /\ alerts' = IF table = "alerts" THEN rows ELSE alerts
    /\ resources' = IF table = "resources" THEN rows ELSE resources
    /\ rainfall_data' = IF table = "rainfall_data" THEN rows ELSE rainfall_data
    /\ distribution_log' = IF table = "distribution_log" THEN rows ELSE distribution_log
    /\ last' = NoCall
    /\ UNCHANGED <<today, regions_readable, collation, csv_sheets, store,
                   clock, output_csv, call, reader>>

\* add_record (6_Database_Explorer.py lines 119-205), and likewise
\* add_new_resource, add_new_alert and add_distribution_log: INSERT INTO
\* the table, the primary key left to AUTO_INCREMENT.  The selectbox of the
\* form offers the risk levels for a region and the severities for an
\* alert, with LevelNames for the fallback list (lines 148 and 170); the
\* Alert Center's form offers LevelNames (4_Alert_Center.py line 355); the
\* other forms modelled have no selectbox.
add_record ==
    LET LevelNames == {"Low", "Moderate", "High", "Critical"}
        FormOptions(table) ==
            CASE table = "affected_regions" ->
                    get_distinct_options("affected_regions", "risk_level", LevelNames)
              [] table = "alerts" ->
                    get_distinct_options("alerts", "severity", LevelNames)
                    \cup LevelNames
              [] OTHER -> {NULL}
    IN \E table \in BaseTables : \E option \in FormOptions(table) :
          /\ Len(affected_regions) + Len(alerts) + Len(resources)
             + Len(rainfall_data) + Len(distribution_log) < MaxBaseRows
          /\ table = "affected_regions" => next_region_id <= MaxRegionId
          /\ WriteTable(table, Append(Base[table], NewRecord(table, option)))
          /\ next_region_id' = IF table = "affected_regions"
                               THEN next_region_id + 1 ELSE next_region_id
          /\ UNCHANGED reload_pc

\* delete_record (6_Database_Explorer.py lines 207-221), and likewise
\* delete_alert: DELETE FROM the table WHERE its primary key is the one
\* given.
delete_record ==
    \E table \in BaseTables : \E i \in 1..Len(Base[table]) :
        /\ WriteTable(table, [j \in 1..(Len(Base[table]) - 1) |->
                                 IF j < i THEN Base[table][j]
                                 ELSE Base[table][j + 1]])
        /\ UNCHANGED <<next_region_id, reload_pc>>

\* update_resource_stock (3_Resource_Overview.py lines 348-399): UPDATE
\* resources SET quantity_available = ... WHERE resource_id = ...  The
\* stock form is given the quantity 7.
update_resource_stock ==
    LET NewQuantities == {7}
    IN \E i \in 1..Len(resources) : \E q \in NewQuantities :
          /\ WriteTable("resources", [resources EXCEPT ![i].quantity_available = q])
          /\ UNCHANGED <<next_region_id, reload_pc>>

\* reload_alerts.py, lines 35-39: DELETE FROM alerts, committed.
ReloadAlertsDelete ==
    /\ reload_pc = "idle"
    /\ reload_pc' = "deleted"
    /\ WriteTable("alerts", <<>>)
    /\ UNCHANGED next_region_id

\* reload_alerts.py, lines 41-70: the alerts of csv_sheets/alerts.csv are
\* inserted one by one, each in a try of its own (lines 55-67): a row the
\* server refuses is reported and skipped, the others are committed
\* together (line 69).  A row is refused when its alert_id is missing or
\* taken, or when the server fails its statement; the alerts of the model
\* carry no alert_id, and any of the rows may be the ones refused.  The
\* parameters of a row are the str() of its cells (lines 57-64), and the
\* str of an empty cell, which pd.read_csv reads as NaN, is 'nan'.
ReloadAlertsInsert ==
    LET rows == csv_sheets.alerts
        Str(v) == IF v = NULL THEN "nan" ELSE v
        AlertParams(row) ==
            [region |-> Str(row.region), severity |-> Str(row.severity),
             expiry_date |-> row.expiry_date]
        Inserted(skipped) ==
            LET kept == SelectSeq([i \in 1..Len(rows) |-> i],
                                  LAMBDA i : i \notin skipped)
            IN [j \in 1..Len(kept) |-> AlertParams(rows[kept[j]])]
    IN /\ reload_pc = "deleted"
       /\ reload_pc' = "idle"
       /\ \E skipped \in SUBSET (1..Len(rows)) :
             WriteTable("alerts", alerts \o Inserted(skipped))
       /\ UNCHANGED next_region_id

\* One region in the tables; the flat files hold the same and two alerts,
\* one of them without a severity.
InitPages ==
    /\ today = 10
    /\ affected_regions = <<Region1>>
    /\ alerts = <<>>
    /\ resources = <<>>
    /\ distribution_log = <<>>
    /\ rainfall_data = <<>>
    /\ regions_readable = TRUE
    /\ collation = "case-insensitive"
    /\ reload_pc = "idle"
    /\ next_region_id = AutoIncrement
    /\ csv_sheets = [Mirror EXCEPT
                        !.alerts = <<[region |-> "R1", severity |-> "Critical",
                                      expiry_date |-> 10],
                                     [region |-> "R1", severity |-> NULL,
                                      expiry_date |-> 10]>>]
    /\ store = NoTable
    /\ clock = 0
    /\ output_csv = NotWritten
    /\ call = Idle
    /\ last = NoCall
    /\ reader = [read |-> FALSE]

NextPages ==
    \/ add_record \/ delete_record \/ update_resource_stock
    \/ ReloadAlertsDelete \/ ReloadAlertsInsert
    \/ DbCreate /\ Plain'
    \/ DbTruncate /\ Plain'
    \/ DbInsert /\ Plain'
    \/ CsvCompute /\ Plain'
    \/ CsvCreate /\ Plain'
    \/ CsvTruncate /\ Plain'
    \/ CsvBatch /\ Plain'

SpecPages == InitPages /\ [][NextPages]_vars

\* The tables a refresh can leave on the base data as they are.
ComputedRows(op) == IF op = "db" THEN DbTables ELSE {CsvTable}

\* C9 (full rebuild): when a refresh all of whose statements succeeded has
\* returned, the summary table holds exactly the rows computed from the base
\* data as of that refresh (last_refreshed apart): no row of a region removed
\* since an earlier refresh and no value of an earlier refresh is left.
C9_FullRebuild ==
    (Returned /\ Persisted(last))
    => Strip(store.rows) \in ComputedRows(last.op)

\* A successful refresh that found, in the table, the row of a region since
\* removed and a row whose resource total has since changed.
C9_Witness ==
    /\ Returned /\ Persisted(last)
    /\ store.rows # {}
    /\ \E r \in last.before : r.region_name \notin RegionNames(Base)
    /\ \E r \in last.before : \E n \in store.rows :
          /\ r.region_name = n.region_name
          /\ r.total_resources_available # n.total_resources_available

(***************************************************************************)
(* Flat files with defects (lines 193-217): a file of one of the four      *)
(* non-Region entities is absent, or lacks a column the code relies on.    *)
(***************************************************************************)
\* The flat files hold what the tables hold, but for one defect.
InitFiles ==
    /\ AggTables
    /\ \E defect \in Defects : csv_sheets = [Mirror EXCEPT !.defect = defect]
    /\ Unstarted

\* The call c is refresh_mv_from_csv(csv_dir) from a script: no db, no
\* output file.
Preview(c) == c.op = "csv" /\ ~c.with_db /\ c.out_path = NoPath /\ ~c.cli

NextFiles == CsvCompute /\ Preview(last)'

SpecFiles == InitFiles /\ [][NextFiles]_vars

\* The summary columns that come from the alerts' severity alone.
SeverityColumns == {"max_sev_rank", "highest_active_severity"}

Without(r, cols) == [c \in DOMAIN r \ cols |-> r[c]]

\* The same files with the entity's file present but empty.
Emptied(d, entity) == [d EXCEPT ![entity] = <<>>]

\* C11 as stated: with the file of a non-Region entity absent or lacking a
\* column, refresh_mv_from_csv returns one row per region in which the
\* aggregates are those of the same files with that entity's file present
\* but empty (the entity's own aggregates at their defaults, the others
\* untouched); where only the severity column is missing, the severity is
\* null and every other column is as with the whole file.
C11_PartialDataTolerance ==
    (last.op = "csv" /\ csv_sheets.defect # NoDefect)
    => /\ OnePerRegion(last.ret_df, csv_sheets.affected_regions)
       /\ IF csv_sheets.defect.column = "severity"
          THEN LET whole == CsvSummary(RawFiles)
               IN /\ Len(last.ret_df) = Len(whole)
                  /\ \A i \in 1..Len(whole) :
                        /\ last.ret_df[i].highest_active_severity = NULL
                        /\ Without(last.ret_df[i], SeverityColumns)
                              = Without(whole[i], SeverityColumns)
          ELSE last.ret_df = CsvSummary(Emptied(RawFiles, csv_sheets.defect.entity))

(***************************************************************************)
(* Claims about single aggregates.                                         *)
(***************************************************************************)
RECURSIVE SumOver(_, _)
SumOver(f, S) ==
    IF S = {} THEN 0
    ELSE LET x == CHOOSE y \in S : TRUE IN f[x] + SumOver(f, S \ {x})

\* The distribution events of the region named name that are dated on or
\* after the current date minus seven days.
EventsInWindow(name) ==
    {i \in 1..Len(distribution_log) :
        /\ distribution_log[i].region_id = affected_regions[RegionIdOf(name)].region_id
        /\ distribution_log[i].date_distributed >= today - 7}

\* C12 (window boundary): in every summary row of either path,
\* distributions_last_7d is the sum of quantity_sent over exactly the events
\* of the region's region_id dated on or after the current date minus 7
\* days: an event of exactly 7 days ago counts, one of 8 days ago does not.
C12_WindowBoundary ==
    \A r \in SummaryRows :
        r.distributions_last_7d =
            SumOver([i \in 1..Len(distribution_log) |-> distribution_log[i].quantity_sent],
                    EventsInWindow(r.region_name))

\* A region with one event exactly 7 days back and one 8 days back, of
\* which only the first is counted.
C12_Witness ==
    /\ last.op \in {"db", "csv"}
    /\ Len(distribution_log) = 2
    /\ \E i, j \in 1..2 :
          /\ distribution_log[i].region_id = 1 /\ distribution_log[j].region_id = 1
          /\ distribution_log[i].date_distributed = today - 7
          /\ distribution_log[j].date_distributed = today - 8
    /\ \E r \in SummaryRows :
          r.region_name = "R1" /\ r.distributions_last_7d = 3

(***************************************************************************)
(* Runs over the alerts alone: up to MaxAlerts alerts in any order.  The   *)
(* alerts of region R1 are active (expiring today) or expired (yesterday), *)
(* of known or unknown severity; region R2 has one possible alert; one     *)
(* alert is filed under r1 and one has the severity critical.              *)
(***************************************************************************)
SeverityAlertRows ==
    [region : {"R1"}, severity : {"Low", "High", "Critical", "Severe"},
     expiry_date : {9, 10}]
    \cup {[region |-> "R2", severity |-> "High", expiry_date |-> 10],
          [region |-> "r1", severity |-> "Critical", expiry_date |-> 10],
          [region |-> "R1", severity |-> "critical", expiry_date |-> 10]}

InitAlerts ==
    /\ today = 10
    /\ affected_regions = <<Region1, Region2>>
    /\ \E n \in 0..MaxAlerts : alerts \in [1..n -> SeverityAlertRows]
    /\ resources = <<>>
    /\ distribution_log = <<>>
    /\ rainfall_data = <<>>
    /\ regions_readable = TRUE
    /\ collation \in Collations
    /\ reload_pc = "idle"
    /\ next_region_id = AutoIncrement
    /\ csv_sheets = Mirror
    /\ store = NoTable
    /\ clock = 0
    /\ output_csv = NotWritten
    /\ call = Idle
    /\ last = NoCall
    /\ reader = [read |-> FALSE]

SpecAlerts == InitAlerts /\ [][NextAgg]_vars

\* The ranking of the claim: Low < Moderate < High < Critical.
SeverityOrder == <<"Low", "Moderate", "High", "Critical">>

Outranks(a, b) ==
    \E i, j \in 1..Len(SeverityOrder) :
        SeverityOrder[i] = a /\ SeverityOrder[j] = b /\ i >= j

\* The known severities of the active alerts of the region named name.
ActiveSeverities(name) ==
    {alerts[i].severity : i \in {j \in 1..Len(alerts) :
        /\ alerts[j].region = name
        /\ alerts[j].expiry_date >= today
        /\ alerts[j].severity \in KnownSeverities}}

\* C13 as stated (severity ranking): in every summary row of a region that
\* has an active alert of known severity, highest_active_severity is the
\* severity, among those of the region's active alerts, that outranks all
\* the others under Low < Moderate < High < Critical; the order of the
\* alert rows and the expired alerts play no part.
C13_SeverityRanking ==
    \A r \in SummaryRows :
        ActiveSeverities(r.region_name) # {}
        => /\ r.highest_active_severity \in ActiveSeverities(r.region_name)
           /\ \A s \in ActiveSeverities(r.region_name) :
                 Outranks(r.highest_active_severity, s)

\* The part of C13 that holds: the ranking, where text is compared letter
\* for letter.
C13_RankingWhereExact ==
    ExactText =>
        \A r \in SummaryRows :
            ActiveSeverities(r.region_name) # {}
            => /\ r.highest_active_severity \in ActiveSeverities(r.region_name)
               /\ \A s \in ActiveSeverities(r.region_name) :
                     Outranks(r.highest_active_severity, s)

(***************************************************************************)
(* Runs over the rainfall alone: up to MaxReadings readings in any order.  *)
(* Region R1 has readings 10, 7, 5 days and 1 day back of 10, 20 or 30 mm, *)
(* one of 20.05 mm, an amount no binary fraction holds exactly, two of     *)
(* 12.345 mm (10 days and 1 day back), which has more decimals than the    *)
(* summary table keeps, and one filed under r1; region R2 has one possible *)
(* reading.                                                                *)
(***************************************************************************)
RainReadings ==
    LET Reading(region, date, mm) ==
            [region |-> region, date |-> date, rainfall_mm |-> mm]
    IN {Reading("R1", 0, 10000), Reading("R1", 0, 20000), Reading("R1", 3, 10000),
        Reading("R1", 5, 20000), Reading("R1", 9, 30000), Reading("R1", 9, 20050),
        Reading("R1", 9, 10000), Reading("R2", 9, 10000),
        Reading("R1", 9, 12345), Reading("R1", 0, 12345),
        Reading("r1", 9, 10000)}

InitRain ==
    /\ today = 10
    /\ affected_regions = <<Region1, Region2>>
    /\ alerts = <<>>
    /\ resources = <<>>
    /\ distribution_log = <<>>
    /\ \E n \in 0..MaxReadings : rainfall_data \in [1..n -> RainReadings]
    /\ regions_readable = TRUE
    /\ collation \in Collations
    /\ reload_pc = "idle"
    /\ next_region_id = AutoIncrement
    /\ csv_sheets = Mirror
    /\ store = NoTable
    /\ clock = 0
    /\ output_csv = NotWritten
    /\ call = Idle
    /\ last = NoCall
    /\ reader = [read |-> FALSE]

SpecRain == InitRain /\ [][NextAgg]_vars

\* The readings of the region named name, and those inside the window.
ReadingsOf(name) == {i \in 1..Len(rainfall_data) : rainfall_data[i].region = name}

ReadingsInWindow(name) ==
    {i \in ReadingsOf(name) : rainfall_data[i].date >= today - 7}

RainSum(S) == SumOver([i \in 1..Len(rainfall_data) |-> rainfall_data[i].rainfall_mm], S)

\* mm is the rainfall of a reading of the region with the greatest date.
IsLatestOf(mm, name) ==
    \E i \in ReadingsOf(name) :
        /\ rainfall_data[i].rainfall_mm = mm
        /\ \A j \in ReadingsOf(name) : rainfall_data[j].date <= rainfall_data[i].date

LatestAsClaimed(r) ==
    IF ReadingsOf(r.region_name) = {} THEN IsNone(r.latest_rainfall_mm)
    ELSE /\ ~IsNone(r.latest_rainfall_mm)
         /\ IsLatestOf(Get(r.latest_rainfall_mm), r.region_name)

\* The average the DataFrame carries is the mean of the readings of the
\* window: their sum over their number, as double precision gives it.
ExactMean(r) ==
    LET W == ReadingsInWindow(r.region_name)
    IN IF W = {} THEN IsNone(r.avg_rainfall_7d)
       ELSE /\ ~IsNone(r.avg_rainfall_7d)
            /\ Get(r.avg_rainfall_7d).sum = RainSum(W)
            /\ Get(r.avg_rainfall_7d).n = Cardinality(W)

\* The stored average is exactly the mean.
StoredIsMean(r) ==
    LET W == ReadingsInWindow(r.region_name)
    IN IF W = {} THEN IsNone(r.avg_rainfall_7d)
       ELSE /\ ~IsNone(r.avg_rainfall_7d)
            /\ Get(r.avg_rainfall_7d) * Cardinality(W) = RainSum(W)

\* v is a whole number of hundredths.
TwoDecimals(v) == v % 10 = 0

\* The stored average is a hundredth nearest to the mean: of a mean half-way
\* between two hundredths the binary arithmetic makes either.
StoredIsRoundedMean(r) ==
    LET W == ReadingsInWindow(r.region_name)
        n == Cardinality(W)
    IN IF W = {} THEN IsNone(r.avg_rainfall_7d)
       ELSE /\ ~IsNone(r.avg_rainfall_7d)
            /\ TwoDecimals(Get(r.avg_rainfall_7d))
            /\ n * Get(r.avg_rainfall_7d) - 5 * n <= RainSum(W)
            /\ RainSum(W) <= n * Get(r.avg_rainfall_7d) + 5 * n

\* The stored latest amount is the hundredth nearest to the rainfall of a
\* reading of the region with the greatest date, half a hundredth upwards.
StoredIsRoundedLatest(r) ==
    IF ReadingsOf(r.region_name) = {} THEN IsNone(r.latest_rainfall_mm)
    ELSE /\ ~IsNone(r.latest_rainfall_mm)
         /\ TwoDecimals(Get(r.latest_rainfall_mm))
         /\ \E mm \in (Get(r.latest_rainfall_mm) - 5)..(Get(r.latest_rainfall_mm) + 4) :
                IsLatestOf(mm, r.region_name)

\* C14 as stated (rainfall aggregation): in every row computed or stored,
\* avg_rainfall_7d is the arithmetic mean of the region's readings dated on
\* or after today - 7 and latest_rainfall_mm is the rainfall of the region's
\* reading with the greatest date.
C14_AsStated ==
    /\ last.op = "csv" =>
          \A i \in 1..Len(last.ret_df) :
              ExactMean(last.ret_df[i]) /\ LatestAsClaimed(last.ret_df[i])
    /\ Persisted(last) =>
          \A r \in store.rows : StoredIsMean(r) /\ LatestAsClaimed(r)

\* The part of C14 that holds: the average and the latest amount in the
\* returned DataFrame are as claimed; where text is compared letter for
\* letter, the two stored in the table are the values of two decimals
\* nearest to them; a region without readings (in the window) has a null
\* latest (average).
C14_RoundedWhereExact ==
    /\ last.op = "csv" =>
          \A i \in 1..Len(last.ret_df) :
              ExactMean(last.ret_df[i]) /\ LatestAsClaimed(last.ret_df[i])
    /\ (Persisted(last) /\ ExactText) =>
          \A r \in store.rows : StoredIsRoundedMean(r) /\ StoredIsRoundedLatest(r)

\* What os.path.exists told the call of affected_regions.csv, and the
\* files as the call's _read hands them on.
SeenByCall == IF call.op = "csv" THEN call.seen ELSE csv_sheets.regions_readable

FilesAsRead == [Files EXCEPT !.regions_readable = SeenByCall]

\* C15 (preview without side effects): no step of a refresh_mv_from_csv
\* call with no db and no output path changes the summary table, the output
\* file or the base data; the call raises only when affected_regions.csv
\* was removed between its check and its read, and otherwise returns the
\* summary of the files as it read them; and whatever persistence targets
\* a refresh_mv_from_csv call is given, the rows it computes are the summary
\* of the files as it read them, and the rows it returns are the rows it
\* computed.
C15_PreviewNoSideEffects ==
    [][/\ (call' = Idle /\ last' # last /\ Preview(last'))
          => /\ UNCHANGED <<base, store, output_csv>>
             /\ last'.before = store.rows
             /\ last'.raised <=> (SeenByCall /\ ~csv_sheets.regions_readable)
             /\ ~last'.raised => last'.ret_df = CsvSummary(FilesAsRead)
       /\ (call.op # "csv" /\ call'.op = "csv" /\ call'.pc = "read")
          => UNCHANGED <<base, store, output_csv>>
       /\ ((call.op # "csv" \/ call.pc = "read")
           /\ call'.op = "csv" /\ call'.pc # "read")
          => call'.mv = CsvSummary(FilesAsRead)
       /\ (call.op = "csv" /\ call.pc # "read"
           /\ call'.op # "csv" /\ ~last'.raised)
          => last'.ret_df = call.mv]_vars

\* A preview has returned rows while the table held rows and the output
\* file had been written by an earlier call.
C15_Witness ==
    /\ call = Idle
    /\ Preview(last)
    /\ last.ret_df # <<>>
    /\ store.rows # {}
    /\ output_csv # NotWritten

\* The five base relations, tables and flat files.
BaseRelations ==
    <<affected_regions, alerts, resources, rainfall_data, distribution_log,
      csv_sheets>>

\* The step is a statement of the core.
CoreStep ==
    \/ DbCreate \/ DbTruncate \/ DbInsert
    \/ CsvExists \/ CsvCompute \/ CsvWriteOutput
    \/ CsvCreate \/ CsvTruncate \/ CsvBatch \/ CsvFallbackRow

\* C16 (the core never mutates base data): no step of create_mv_table,
\* refresh_mv_from_db or refresh_mv_from_csv, succeeding or failing, changes
\* any of the five base relations; what such a step may change is the
\* summary table and the output file.
C16_BaseDataUntouched ==
    [][CoreStep => UNCHANGED BaseRelations]_vars

\* A call one of whose statements failed has returned, the table holds
\* rows, and there are base data in every relation.
C16_Witness ==
    /\ call = Idle
    /\ last.op \in {"db", "csv"}
    /\ last.steps # <<>>
    /\ ~AllOk(last.steps)
    /\ store.rows # {}
    /\ alerts # <<>> /\ resources # <<>>
    /\ rainfall_data # <<>> /\ distribution_log # <<>>

(***************************************************************************)
(* The columns, in order, of what a refresh writes.                        *)
(***************************************************************************)
\* DataFrame.merge(right, on=key, how="left"): the left columns, then the
\* right columns other than the key.
MergeColumns(left, right, key) == left \o SelectSeq(right, LAMBDA c : c # key)

\* mv.rename(columns={...}) (lines 274-280).
RenameColumn(c) ==
    CASE c = "alerts_active" -> "active_alerts_count"
      [] c = "total_qty" -> "total_resources_available"
      [] c = "qty_last_7d" -> "distributions_last_7d"
      [] c = "latest_mm" -> "latest_rainfall_mm"
      [] c = "avg_7d" -> "avg_rainfall_7d"
      [] OTHER -> c

\* The columns of the DataFrame mv as lines 262-287 leave it: nothing
\* selects or reorders the columns after the merges.
MvColumns ==
    LET c0 == <<"region_id", "region_name", "population", "risk_level">>
        c1 == MergeColumns(c0, <<"region_name", "alerts_active", "max_sev_rank">>,
                           "region_name")
        c2 == MergeColumns(c1, <<"region_name", "total_qty">>, "region_name")
        c3 == MergeColumns(c2, <<"region_id", "qty_last_7d">>, "region_id")
        c4 == MergeColumns(c3, <<"region_name", "latest_mm", "avg_7d">>,
                           "region_name")
        c5 == Append(c4, "highest_active_severity")
    IN [i \in 1..Len(c5) |-> RenameColumn(c5[i])]

\* mv.to_csv(output_csv_path, index=False) (line 292): a header line with
\* the DataFrame's columns, then its rows; the file is opened for writing,
\* so what it held is gone.
CsvFile(out) ==
    IF out \in {NotWritten, Opened} THEN [header |-> <<>>, rows |-> <<>>]
    ELSE [header |-> MvColumns, rows |-> out[2]]

\* The RegionSummary attributes in their order.
RegionSummaryColumns ==
    <<"region_name", "population", "risk_level", "active_alerts_count",
      "highest_active_severity", "total_resources_available",
      "distributions_last_7d", "latest_rainfall_mm", "avg_rainfall_7d",
      "last_refreshed">>

\* C18 as stated (output shape): the rows in mv_region_dashboard and the
\* rows of the output file carry exactly the RegionSummary columns, in
\* order, none extra and none missing; and the output file holds the rows
\* of the call that wrote it last and nothing of its earlier content.
C18_OutputShape ==
    /\ InsertColumns = RegionSummaryColumns
    /\ \A r \in store.rows : DOMAIN r = SeqToSet(RegionSummaryColumns)
    /\ output_csv # NotWritten =>
          /\ CsvFile(output_csv).header = RegionSummaryColumns
          /\ \A i \in 1..Len(CsvFile(output_csv).rows) :
                DOMAIN CsvFile(output_csv).rows[i] = SeqToSet(RegionSummaryColumns)
    /\ (call = Idle /\ last.op = "csv" /\ last.out_path # NoPath /\ ~last.raised) =>
          CsvFile(output_csv).rows = last.ret_df

\* The part of C18 that holds: the table's columns, the agreement of the
\* file's header with its rows, and the wholesale overwrite.
C18_TableShapeAndOverwrite ==
    /\ InsertColumns = RegionSummaryColumns
    /\ \A r \in store.rows : DOMAIN r = SeqToSet(RegionSummaryColumns)
    /\ output_csv # NotWritten =>
          \A i \in 1..Len(CsvFile(output_csv).rows) :
              DOMAIN CsvFile(output_csv).rows[i] = SeqToSet(CsvFile(output_csv).header)
    /\ (call = Idle /\ last.op = "csv" /\ last.out_path # NoPath /\ ~last.raised) =>
          CsvFile(output_csv).rows = last.ret_df

(***************************************************************************)
(* Runs over the schema: mv_region_dashboard may be absent, exist as the   *)
(* DDL shapes it (empty or with a row of an earlier refresh), or exist     *)
(* with other columns, left by something else.                             *)
(***************************************************************************)
LegacyColumns == <<"region_name", "population", "risk">>

StaleRow ==
    [region_name |-> "R1", population |-> Some(900), risk_level |-> "Low",
     active_alerts_count |-> 0, highest_active_severity |-> NULL,
     total_resources_available |-> 0, distributions_last_7d |-> 0,
     latest_rainfall_mm |-> None, avg_rainfall_7d |-> None,
     last_refreshed |-> 0]

SchemaStores ==
    LET LegacyRow == [region_name |-> "R1", population |-> Some(900),
                      risk |-> "High"]
    IN
    {NoTable,
     [exists |-> TRUE, columns |-> DdlColumns, rows |-> {}],
     [exists |-> TRUE, columns |-> DdlColumns, rows |-> {StaleRow}],
     [exists |-> TRUE, columns |-> LegacyColumns, rows |-> {}],
     [exists |-> TRUE, columns |-> LegacyColumns, rows |-> {LegacyRow}]}

InitSchema ==
    /\ today = 10
    /\ affected_regions \in RegionChoices
    /\ alerts = <<[region |-> "R1", severity |-> "Critical", expiry_date |-> 10]>>
    /\ resources = <<[location |-> "R1", quantity_available |-> 5]>>
    /\ distribution_log = <<[region_id |-> 1, quantity_sent |-> 3,
                             date_distributed |-> 3]>>
    /\ rainfall_data = <<[region |-> "R1", date |-> 9, rainfall_mm |-> 10000]>>
    /\ regions_readable = TRUE
    /\ collation = "case-insensitive"
    /\ reload_pc = "idle"
    /\ next_region_id = AutoIncrement
    /\ csv_sheets = Mirror
    /\ store \in SchemaStores
    /\ clock = 0
    /\ output_csv = NotWritten
    /\ call = Idle
    /\ last = NoCall
    /\ reader = [read |-> FALSE]

\* A call of create_mv_table(db) on its own (lines 61-77).
CreateTable ==
    /\ \E fault \in Faults :
          LET c == create_mv_table(store, fault)
              n == Stepped(NewCall("create", TRUE, NoPath, <<>>), "CREATE",
                           c.ret, fault)
          IN /\ store' = c.store
             /\ last' = Finished(n, c.ret, <<>>, c.raised)
    /\ UNCHANGED <<base, clock, output_csv, call, reader>>

\* refresh_mv_from_csv is called with a db and without output file.
ToStore(c) == c.op = "csv" => c.with_db /\ c.out_path = NoPath

\* create_mv_table on its own and the two refreshes, statement by
\* statement, each of which the environment may fail.
NextSchema ==
    \/ CreateTable
    \/ DbCreate \/ DbTruncate \/ DbInsert
    \/ CsvCompute /\ ToStore(call')
    \/ CsvCreate \/ CsvTruncate \/ CsvBatch \/ CsvFallbackRow

SpecSchema == InitSchema /\ [][NextSchema]_vars

\* The table exists with columns other than RegionSummary's.
WrongShape(st) == st.exists /\ SeqToSet(st.columns) # SeqToSet(RegionSummaryColumns)

\* C19 as stated (schema conflict): when mv_region_dashboard exists with an
\* incompatible shape, create_mv_table reports failure, and a refresh stops
\* at its failed CREATE; no call reports a successful CREATE while the
\* table has the wrong columns.
C19_SchemaConflict ==
    (WrongShape(store) /\ last.op \in {"create", "db", "csv"} /\ last.with_db)
    => /\ Len(last.steps) = 1
       /\ ~last.steps[1].ok
       /\ last.op = "create" => ~last.ret_ok

\* create_mv_table ran on the correctly shaped table and nothing outside
\* the statement failed it.
CreatedOnExisting ==
    /\ CreateTable
    /\ ~last'.faulted
    /\ store.exists
    /\ ~WrongShape(store)

\* C20 (create_mv_table is idempotent): called when the correctly shaped
\* table exists, create_mv_table succeeds and leaves the table's columns
\* and every row as they were, so that any number of calls leaves what one
\* call leaves; and no two rows of the table share a region_name.
C20_CreateIdempotent ==
    [][/\ CreatedOnExisting =>
             /\ last'.ret_ok
             /\ store' = store
       /\ ~WrongShape(store') =>
             \A r1, r2 \in store'.rows :
                 r1.region_name = r2.region_name => r1 = r2]_vars

\* create_mv_table has succeeded on the correctly shaped table, which held
\* and still holds the rows of the two regions.
C20_Witness ==
    /\ last.op = "create"
    /\ last.ret_ok
    /\ ~WrongShape(store)
    /\ Cardinality(store.rows) = 2
    /\ last.before = store.rows

(***************************************************************************)
(* The command line (lines 332-356).  A run that ends without an uncaught  *)
(* exception has exit status 0: the script never calls sys.exit.           *)
(***************************************************************************)
ExitNormal == 0
\* The interpreter's exit status after an uncaught exception.
ExitTraceback == 1

\* A line printed: its text and, where the line carries one, a row count.
Line(text, n) == [text |-> text, n |-> n]

\* What the run before this one ended with.
Earlier == IF last.op = "main" THEN <<[outcome |-> last.outcome, exit |-> last.exit]>>
           ELSE <<>>

\* What is kept of a finished run of the command line: stdout is the lines
\* it printed, traceback whether the interpreter wrote the traceback of an
\* uncaught exception to stderr.
Ran(source, exit, stdout, outcome, earlier) ==
    [NoCall EXCEPT !.op = "main"]
    @@ [source |-> source, exit |-> exit, stdout |-> stdout,
        traceback |-> exit = ExitTraceback,
        outcome |-> outcome, earlier |-> earlier]

\* --from db, lines 344-350: DatabaseConnection().connect(); a connection
\* that fails is reported and the run is over.
MainDb ==
    /\ call = Idle
    /\ \E connects \in BOOLEAN :
          IF connects
          THEN /\ call' = [op |-> "main", source |-> "db", earlier |-> Earlier]
               /\ last' = last
          ELSE /\ call' = Idle
               /\ last' = Ran("db", ExitNormal, <<Line("DB connection failed", None)>>,
                              "connection failed", Earlier)
    /\ UNCHANGED <<base, store, clock, output_csv, reader>>

\* --from csv, lines 351-355: refresh_mv_from_csv is called with csv_dir
\* and --output-csv, which may be absent, and no db.
MainCsv ==
    /\ call = Idle
    /\ \E path \in OutputPaths :
          call' = [op |-> "main", source |-> "csv", out_path |-> path,
                   earlier |-> Earlier]
    /\ UNCHANGED <<base, store, clock, output_csv, last, reader>>

\* Lines 348 and 356: the line printed after the refresh has returned; the
\* refresh having raised, nothing is printed and the interpreter ends the
\* process with the traceback.  A refresh_mv_from_csv that raised on
\* reading affected_regions.csv has computed nothing.
MainEnd ==
    /\ call.op = "main" /\ call.source = "print"
    /\ call' = Idle
    /\ last' =
          IF last.op = "db"
          THEN IF last.raised
               THEN Ran("db", ExitTraceback, <<>>,
                        "refresh failed", call.earlier)
               ELSE Ran("db", ExitNormal,
                        IF last.ret_ok THEN <<Line("Refresh from DB: OK", None)>>
                        ELSE <<Line("Refresh from DB: FAILED", None)>>,
                        IF last.ret_ok THEN "computed and persisted"
                        ELSE "refresh failed", call.earlier)
          ELSE IF last.raised
               THEN Ran("csv", ExitTraceback, <<>>,
                        IF last.seen /\ last.unreadable THEN "refresh failed"
                        ELSE "computed, persistence failed", call.earlier)
               ELSE Ran("csv", ExitNormal,
                        <<Line("Built MV from CSV with rows", Some(Len(last.ret_df)))>>,
                        IF last.out_path # NoPath THEN "computed and persisted"
                        ELSE "computed, persistence skipped", call.earlier)
    /\ UNCHANGED <<base, store, clock, output_csv, reader>>

\* The refreshes are those the command line calls.
FromCommandLine ==
    /\ call.op \in {"db", "csv"} => call.cli
    /\ last.op \in {"db", "csv"} => last.cli

NextMain ==
    \/ MainDb \/ MainCsv \/ MainEnd
    \/ DbCreate /\ FromCommandLine'
    \/ DbTruncate /\ FromCommandLine'
    \/ DbInsert /\ FromCommandLine'
    \/ LoseRegions \/ RestoreRegions
    \/ CsvExists /\ FromCommandLine'
    \/ CsvCompute /\ FromCommandLine'
    \/ CsvWriteOutput /\ FromCommandLine'

SpecMain == InitSchema /\ [][NextMain]_vars

\* C17 as stated (exit status): two runs of the command line that end in
\* different outcomes (computed and persisted; computed but persistence
\* skipped or failed; not computed, be it a failed connection or a failed
\* refresh_mv_from_db) end with different exit statuses.
C17_ExitStatusDistinguishes ==
    (last.op = "main" /\ last.earlier # <<>>
     /\ last.earlier[1].outcome # last.outcome)
    => last.earlier[1].exit # last.exit


\* The bulk write of the call (the INSERT ... SELECT, or the batch of
\* executemany) failed after its TRUNCATE had succeeded.
BulkWriteFailedAfterTruncate(steps) ==
    \E i \in 1..Len(steps) - 1 :
        /\ steps[i] = Step("TRUNCATE", TRUE)
        /\ steps[i + 1].kind \in {"INSERT", "BATCH"}
        /\ ~steps[i + 1].ok

\* C21 as stated (empty after a failed bulk write): once a refresh whose
\* bulk write failed after a successful TRUNCATE has returned, and for as
\* long as no later refresh has run, the summary table holds no row, neither
\* of the old snapshot nor of the new rows; on both store-writing paths.
C21_EmptyAfterFailedBulkWrite ==
    (Returned /\ BulkWriteFailedAfterTruncate(last.steps))
    => store.rows = {}

\* The part of C21 that holds: the claim for refresh_mv_from_db.
C21_EmptyAfterFailedInsertSelect ==
    (Returned /\ last.op = "db" /\ BulkWriteFailedAfterTruncate(last.steps))
    => store.rows = {}


\* The rows the latest call wrote into the summary table.
RowsWritten == store.rows \ last.before

\* C22 as stated (one instant per refresh): the rows one refresh has written
\* to the summary table all carry the same last_refreshed, on the store path
\* and on the flat-file path, also when the batch insert failed and the
\* rows were inserted one by one.
C22_OneInstantPerRefresh ==
    Returned =>
        \A r1, r2 \in RowsWritten : r1.last_refreshed = r2.last_refreshed

\* The part of C22 that holds: a refresh that wrote its rows in one
\* statement (INSERT ... SELECT, or the batch insert) stamped them alike.
C22_OneInstantPerStatement ==
    (Returned /\ \A i \in 1..Len(last.steps) : last.steps[i].kind # "ROW")
    => \A r1, r2 \in RowsWritten : r1.last_refreshed = r2.last_refreshed


\* The alerts of the region named name that expire today or later.
ActiveAlertsOf(name) ==
    {i \in 1..Len(alerts) :
        alerts[i].region = name /\ alerts[i].expiry_date >= today}

\* C23 as stated (active-alert boundary): in every summary row,
\* active_alerts_count is the number of alerts whose region is the row's
\* region_name and whose expiry_date is today or later: an alert expiring
\* today counts, one that expired yesterday does not; on both paths.
C23_ActiveAlertBoundary ==
    \A r \in SummaryRows :
        r.active_alerts_count = Cardinality(ActiveAlertsOf(r.region_name))

\* The part of C23 that holds: the count, where text is compared letter for
\* letter.
C23_BoundaryWhereExact ==
    ExactText =>
        \A r \in SummaryRows :
            r.active_alerts_count = Cardinality(ActiveAlertsOf(r.region_name))


(***************************************************************************)
(* Runs over the resources alone, with the store comparing text as its     *)
(* collation says.  The base tables are created outside this code, so      *)
(* their collation is the server's: case-insensitive by default            *)
(* (utf8mb4_0900_ai_ci, utf8mb4_general_ci, latin1_swedish_ci), binary if  *)
(* the schema asks for it.                                                 *)
(***************************************************************************)
ResourceChoices ==
    [location : {"R1", "r1", "R2", "Elsewhere"}, quantity_available : {5, 7}]

InitResources ==
    /\ today = 10
    /\ affected_regions \in RegionChoices
    /\ alerts = <<>>
    /\ \E n \in 0..MaxResources : resources \in [1..n -> ResourceChoices]
    /\ distribution_log = <<>>
    /\ rainfall_data = <<>>
    /\ regions_readable = TRUE
    /\ collation \in Collations
    /\ reload_pc = "idle"
    /\ next_region_id = AutoIncrement
    /\ csv_sheets = Mirror
    /\ store = NoTable
    /\ clock = 0
    /\ output_csv = NotWritten
    /\ call = Idle
    /\ last = NoCall
    /\ reader = [read |-> FALSE]

SpecResources == InitResources /\ [][NextAgg]_vars

\* The resources whose location is, letter for letter, the region's name.
ResourcesOf(name) == {i \in 1..Len(resources) : resources[i].location = name}

ResourceSum(S) ==
    SumOver([i \in 1..Len(resources) |-> resources[i].quantity_available], S)

\* C24 as stated (strict resource join): in every summary row,
\* total_resources_available is the sum of quantity_available over exactly
\* the resources whose location is string-equal, letter case included, to
\* the row's region_name; a resource whose location is no region's name,
\* or differs from it in letter case only, adds to no total.
C24_StrictResourceJoin ==
    \A r \in SummaryRows :
        r.total_resources_available = ResourceSum(ResourcesOf(r.region_name))

\* The part of C24 that holds: the flat-file path, and the store path on a
\* store whose collation is binary.
C24_StrictWhereBinary ==
    (last.op = "csv" \/ (last.op = "db" /\ collation = "binary"))
    => \A r \in SummaryRows :
          r.total_resources_available = ResourceSum(ResourcesOf(r.region_name))


(***************************************************************************)
(* Runs over the distribution events alone.  The regions R1 and R2 carry   *)
(* the region_ids 1 and 2 either way round, so that a join by name and a   *)
(* join by number tell apart; events may name a region_id (3) that no      *)
(* region has.  One alert, one resource and one reading belong to R1.      *)
(***************************************************************************)
RegionNumberings ==
    {<<>>, <<Region1>>, <<Region1, Region2>>,
     <<[Region1 EXCEPT !.region_id = 2]>>,
     <<[Region1 EXCEPT !.region_id = 2], [Region2 EXCEPT !.region_id = 1]>>}

EventChoices ==
    [region_id : {1, 2, 3}, quantity_sent : {3, 4}, date_distributed : {3}]
    \cup {[region_id |-> 1, quantity_sent |-> 3, date_distributed |-> 2]}

InitEvents ==
    /\ today = 10
    /\ affected_regions \in RegionNumberings
    /\ alerts = <<[region |-> "R1", severity |-> "Critical", expiry_date |-> 10]>>
    /\ resources = <<[location |-> "R1", quantity_available |-> 5]>>
    /\ \E n \in 0..MaxEvents : distribution_log \in [1..n -> EventChoices]
    /\ rainfall_data = <<[region |-> "R1", date |-> 9, rainfall_mm |-> 10000]>>
    /\ regions_readable = TRUE
    /\ collation = "case-insensitive"
    /\ reload_pc = "idle"
    /\ next_region_id = AutoIncrement
    /\ csv_sheets = Mirror
    /\ store = NoTable
    /\ clock = 0
    /\ output_csv = NotWritten
    /\ call = Idle
    /\ last = NoCall
    /\ reader = [read |-> FALSE]

SpecEvents == InitEvents /\ [][NextAgg]_vars

\* C25 (distribution join key): in every summary row distributions_last_7d
\* is the sum of the in-window events whose region_id is the region's
\* region_id, whatever the region's name, so that an event of a region_id
\* no region has adds to no row; and the alerts, the resources and the
\* rainfall of the row are those of the region's name, whatever its
\* region_id.
C25_DistributionJoinKey ==
    \A r \in SummaryRows :
        /\ r.distributions_last_7d =
              SumOver([i \in 1..Len(distribution_log) |->
                          distribution_log[i].quantity_sent],
                      EventsInWindow(r.region_name))
        /\ r.active_alerts_count = Cardinality(ActiveAlertsOf(r.region_name))
        /\ r.total_resources_available = ResourceSum(ResourcesOf(r.region_name))
        /\ LatestAsClaimed(r)

\* R1 carries region_id 2 and R2 region_id 1; events of the region_ids 1, 2
\* and 3 lie in the window: R1 has the events of region_id 2 and its own
\* alert, resource and reading, R2 the events of region_id 1, and the event
\* of region_id 3 is in no row.
C25_Witness ==
    /\ last.op \in {"db", "csv"}
    /\ Len(affected_regions) = 2
    /\ affected_regions[1].region_name = "R1" /\ affected_regions[1].region_id = 2
    /\ distribution_log =
          <<[region_id |-> 1, quantity_sent |-> 3, date_distributed |-> 3],
            [region_id |-> 2, quantity_sent |-> 4, date_distributed |-> 3],
            [region_id |-> 3, quantity_sent |-> 4, date_distributed |-> 3]>>
    /\ \E r \in SummaryRows :
          /\ r.region_name = "R1"
          /\ r.distributions_last_7d = 4
          /\ r.active_alerts_count = 1
          /\ r.total_resources_available = 5
    /\ \E r \in SummaryRows :
          /\ r.region_name = "R2"
          /\ r.distributions_last_7d = 3
          /\ r.active_alerts_count = 0


\* The region named name has readings, all of them older than the window.
OnlyOldReadings(name) == ReadingsOf(name) # {} /\ ReadingsInWindow(name) = {}

\* C26 as stated (null average outside the window): a region all of whose
\* readings are older than the 7-day window has a null avg_rainfall_7d, not
\* 0, and the rainfall of its most recent reading as latest_rainfall_mm; a
\* region without any reading has null for both; in the rows
\* refresh_mv_from_csv returns and in the rows either path stores.
C26_NullAverageOutsideWindow ==
    \A r \in SummaryRows \cup (IF Persisted(last) THEN store.rows ELSE {}) :
        /\ OnlyOldReadings(r.region_name)
           => /\ r.avg_rainfall_7d = None
              /\ r.latest_rainfall_mm # None
              /\ IsLatestOf(Get(r.latest_rainfall_mm), r.region_name)
        /\ ReadingsOf(r.region_name) = {}
           => /\ r.avg_rainfall_7d = None
              /\ r.latest_rainfall_mm = None

\* The part of C26 that holds: the nulls, where text is compared letter for
\* letter; the latest amount is that of the most recent reading in the
\* returned DataFrame, and in the table the hundredth nearest to it.
C26_NullsWhereExact ==
    /\ last.op = "csv" =>
          \A i \in 1..Len(last.ret_df) :
              LET r == last.ret_df[i]
              IN /\ OnlyOldReadings(r.region_name)
                    => r.avg_rainfall_7d = None /\ LatestAsClaimed(r)
                 /\ ReadingsOf(r.region_name) = {}
                    => r.avg_rainfall_7d = None /\ r.latest_rainfall_mm = None
    /\ (Persisted(last) /\ ExactText) =>
          \A r \in store.rows :
              /\ OnlyOldReadings(r.region_name)
                 => r.avg_rainfall_7d = None /\ StoredIsRoundedLatest(r)
              /\ ReadingsOf(r.region_name) = {}
                 => r.avg_rainfall_7d = None /\ r.latest_rainfall_mm = None


\* The latest_rainfall_mm each region has in rows.
LatestByRegion(rows) == {<<r.region_name, r.latest_rainfall_mm>> : r \in rows}

\* C27 as stated (deterministic tie-break): two computations of the same
\* path over the same readings, several of which share a region's latest
\* date, put the same latest_rainfall_mm for every region.
C27_DeterministicTieBreak ==
    (call = Idle /\ Persisted(last) /\ last.held /\ last.after = last.op)
    => LatestByRegion(store.rows) = LatestByRegion(last.before)

\* The part of C27 that holds: refresh_mv_from_csv takes, of the readings
\* of the latest date, the first in the order of the file, every time.
C27_CsvTakesFirstInFileOrder ==
    last.op = "csv" =>
        \A k \in 1..Len(last.ret_df) :
            LET name == last.ret_df[k].region_name
                top == {i \in ReadingsOf(name) :
                           \A j \in ReadingsOf(name) :
                               rainfall_data[j].date <= rainfall_data[i].date}
            IN top # {} =>
                  last.ret_df[k].latest_rainfall_mm =
                      Some(rainfall_data[CHOOSE i \in top :
                                             \A j \in top : i <= j].rainfall_mm)


(***************************************************************************)
(* Two refresh_mv_from_db invocations on the same store, each on its own   *)
(* connection, their statements interleaved in any order.  Each statement  *)
(* is committed by execute_update before the next one of the same          *)
(* invocation is issued, and the store runs the statements one at a time   *)
(* (TRUNCATE waits for the metadata lock, an INSERT of a key another       *)
(* transaction has inserted waits for it to commit and then fails).  The   *)
(* environment fails no statement.                                         *)
(***************************************************************************)
InitOverlap ==
    /\ today = 10
    /\ affected_regions \in RegionChoices
    /\ alerts = <<[region |-> "R1", severity |-> "Critical", expiry_date |-> 10]>>
    /\ resources = <<[location |-> "R1", quantity_available |-> 5]>>
    /\ distribution_log = <<[region_id |-> 1, quantity_sent |-> 3,
                             date_distributed |-> 3]>>
    /\ rainfall_data = <<[region |-> "R1", date |-> 9, rainfall_mm |-> 10000]>>
    /\ regions_readable = TRUE
    /\ collation = "case-insensitive"
    /\ reload_pc = "idle"
    /\ next_region_id = AutoIncrement
    /\ csv_sheets = Mirror
    /\ store \in {NoTable,
                  [exists |-> TRUE, columns |-> DdlColumns, rows |-> {}],
                  [exists |-> TRUE, columns |-> DdlColumns, rows |-> {StaleRow}]}
    /\ clock = 0
    /\ output_csv = NotWritten
    /\ call = Idle
    /\ last = NoCall
    /\ reader = [read |-> FALSE]

\* Both invocations are called.
OverlapStart ==
    /\ call = Idle
    /\ call' = [op |-> "overlap", pc |-> <<"create", "create">>,
                ret |-> <<FALSE, FALSE>>, before |-> store.rows]
    /\ last' = NoCall
    /\ UNCHANGED <<base, store, clock, output_csv, reader>>

\* Invocation p runs to its return value ret; when both have returned, the
\* pair of calls is over.
OverlapReturn(p, ret) ==
    LET c == [call EXCEPT !.pc[p] = "done", !.ret[p] = ret]
    IN IF \A q \in 1..2 : c.pc[q] = "done"
       THEN /\ call' = Idle
            /\ last' = [NoCall EXCEPT !.op = "overlap", !.with_db = TRUE,
                                      !.before = call.before]
                       @@ [ret |-> c.ret]
       ELSE /\ call' = c
            /\ last' = last

\* The next statement of invocation p (lines 86-87, 90-91, 94-175).
OverlapStep(p) ==
    /\ call.op = "overlap"
    /\ \/ /\ call.pc[p] = "create"
          /\ \E c \in {create_mv_table(store, "none")} :
                /\ store' = c.store
                /\ IF c.ret
                   THEN call' = [call EXCEPT !.pc[p] = "truncate"] /\ last' = last
                   ELSE OverlapReturn(p, FALSE)
       \/ /\ call.pc[p] = "truncate"
          /\ \E t \in {truncate_mv_table(store, "none")} :
                /\ store' = t.store
                /\ IF t.ret
                   THEN call' = [call EXCEPT !.pc[p] = "insert"] /\ last' = last
                   ELSE OverlapReturn(p, FALSE)
       \/ /\ call.pc[p] = "insert"
          /\ \E order \in TieOrders(Tables) :
                \E i \in {execute_update(store,
                              [kind |-> "INSERT",
                               rows |-> SelectRows(Tables, order, clock)],
                              "none")} :
                   /\ store' = i.store
                   /\ OverlapReturn(p, i.ret)
    /\ UNCHANGED <<base, clock, output_csv, reader>>

NextOverlap == OverlapStart \/ (\E p \in 1..2 : OverlapStep(p)) \/ Tick

SpecOverlap == InitOverlap /\ [][NextOverlap]_vars

\* The table holds one row for each region and no other row.
CompleteSnapshot ==
    /\ {r.region_name : r \in store.rows} = RegionNames(Base)
    /\ Cardinality(store.rows) = Len(affected_regions)

\* C28 as stated (overlapping refreshes): once two interleaved
\* refresh_mv_from_db invocations have both returned, the table holds
\* exactly one row per region, and neither has returned False unless the
\* table does not hold a complete snapshot.
C28_OverlappingRefreshes ==
    (call = Idle /\ last.op = "overlap")
    => /\ CompleteSnapshot
       /\ \A p \in 1..2 : ~last.ret[p] => ~CompleteSnapshot

\* The part of C28 that holds: the table is complete in the end, and one of
\* the two invocations has returned True.
C28_CompleteInTheEnd ==
    (call = Idle /\ last.op = "overlap")
    => /\ CompleteSnapshot
       /\ \E p \in 1..2 : last.ret[p]


(***************************************************************************)
(* The row-by-row fallback of refresh_mv_from_csv (lines 324-327): runs on *)
(* the seed scenario with a second region, in which the store's clock      *)
(* advances and the environment may fail any statement.                    *)
(***************************************************************************)
InitFallback == affected_regions = <<Region1, Region2>> /\ SeedData /\ Unstarted

NextFallback ==
    \/ Tick
    \/ DbCreate \/ DbTruncate \/ DbInsert
    \/ CsvCompute /\ ToStore(call')
    \/ CsvCreate \/ CsvTruncate \/ CsvBatch \/ CsvFallbackRow

SpecFallback == InitFallback /\ [][NextFallback]_vars

\* The latest call was a refresh_mv_from_csv with a db whose batch insert
\* raised, so that its tuples were inserted one at a time.
FellBack ==
    /\ Returned
    /\ last.op = "csv"
    /\ Len(last.steps) > 3
    /\ last.steps[3] = Step("BATCH", FALSE)

\* The rows of the table when the fallback began: none after a TRUNCATE
\* that ran, those of before the call otherwise.
RowsAtFallback == last.at_fallback

\* The table holds the row of the i-th tuple of the call.
HoldsTuple(i) ==
    \E r \in store.rows :
       Strip({r}) = Strip({ValuesRow(RowTuples(last.mv)[i], 0)})

\* The store accepts the single-row insert of the i-th tuple when that is
\* sent on its own: the environment fails neither the statement nor its
\* commit, the table is there with the columns of the INSERT, and no row
\* the table held when the fallback began has the tuple's region_name.
AcceptableAlone(i) ==
    /\ last.row_faults[i] = "none"
    /\ store.exists
    /\ ~UnknownColumn(store, InsertColumns)
    /\ ~KeyClash(RowsAtFallback, <<ValuesRow(RowTuples(last.mv)[i], 0)>>)

\* C29 as stated (fallback completeness): after a refresh_mv_from_csv with
\* a db whose batch insert (executemany and commit) raised and whose tuples
\* were then inserted one at a time, the table holds a row for every tuple
\* whose single-row insert is acceptable to the store, whatever happened
\* to the other rows, and no row the table held when the fallback began is
\* gone.
C29_FallbackCompleteness ==
    FellBack
    => /\ \A i \in 1..Len(last.row_faults) : AcceptableAlone(i) => HoldsTuple(i)
       /\ RowsAtFallback \subseteq store.rows

\* The part of C29 that holds: there was one single-row insert per tuple of
\* the frame, up to the end or to the insert that found the connection
\* lost; the table holds the row of every tuple whose insert returned
\* True, whichever other inserts failed and were rolled back before or
\* after it, and no row the table held when the fallback began is gone.
C29_AcceptedRowsStay ==
    FellBack
    => /\ Len(last.steps) <= 3 + Len(last.mv)
       /\ Len(last.steps) < 3 + Len(last.mv) => last.raised
       /\ \A i \in 1..(Len(last.steps) - 3) :
             last.steps[3 + i] = Step("ROW", TRUE) => HoldsTuple(i)
       /\ RowsAtFallback \subseteq store.rows


(***************************************************************************)
(* The assistant's generated SQL: OpenAIAssistant.validate_sql             *)
(* (openai_helper.py lines 244-280) and execute_ai_query                   *)
(* (7_Chatbot_Assistant.py lines 304-362).  A text is a sequence of        *)
(* one-character strings.  A query is a sequence of lexemes, the pieces    *)
(* the server's parser sees, each with its text; validate_sql sees the     *)
(* text only.  The query generate_sql_query hands back is None for a JSON   *)
(* null, or Some query.                                                    *)
(***************************************************************************)
UpperLetters ==
    <<"A", "B", "C", "D", "E", "F", "G", "H", "I", "J", "K", "L", "M",
      "N", "O", "P", "Q", "R", "S", "T", "U", "V", "W", "X", "Y", "Z">>

LowerLetters ==
    <<"a", "b", "c", "d", "e", "f", "g", "h", "i", "j", "k", "l", "m",
      "n", "o", "p", "q", "r", "s", "t", "u", "v", "w", "x", "y", "z">>

\* str.lower() and str.upper(), one character and a whole text.
Lower(s) ==
    LET LowerChar(c) ==
            IF \E i \in 1..26 : UpperLetters[i] = c
            THEN LowerLetters[CHOOSE i \in 1..26 : UpperLetters[i] = c]
            ELSE c
    IN [i \in 1..Len(s) |-> LowerChar(s[i])]

Upper(s) ==
    LET UpperChar(c) ==
            IF \E i \in 1..26 : LowerLetters[i] = c
            THEN UpperLetters[CHOOSE i \in 1..26 : LowerLetters[i] = c]
            ELSE c
    IN [i \in 1..Len(s) |-> UpperChar(s[i])]

\* str.strip(): the text without its leading and trailing whitespace, the
\* characters for which str.isspace() holds: tab, newline, vertical tab,
\* form feed, carriage return, the four separators U+001C to U+001F, the
\* blank, U+0085, U+00A0, U+1680, and the spaces and separators from
\* U+2000 up, which are written by their code points.
RECURSIVE StripSpaces(_)
StripSpaces(s) ==
    LET Whitespace ==
        {"\t", "\n", "", "\f", "\r", "", "", "", "", " ",
         "", " ", " ",
         "U+2000", "U+2001", "U+2002", "U+2003", "U+2004", "U+2005", "U+2006", "U+2007",
         "U+2008", "U+2009", "U+200A", "U+2028", "U+2029", "U+202F", "U+205F", "U+3000"}
    IN IF s = <<>> THEN s
       ELSE IF Head(s) \in Whitespace THEN StripSpaces(Tail(s))
       ELSE IF s[Len(s)] \in Whitespace THEN StripSpaces(SubSeq(s, 1, Len(s) - 1))
       ELSE s

\* sub in s
Contains(sub, s) ==
    \E i \in 1..(Len(s) - Len(sub) + 1) : SubSeq(s, i, i + Len(sub) - 1) = sub

\* s.startswith(prefix)
StartsWith(s, prefix) ==
    Len(s) >= Len(prefix) /\ SubSeq(s, 1, Len(prefix)) = prefix

\* The words of the queries, letter by letter.
Words ==
    [select |-> <<"s", "e", "l", "e", "c", "t">>,
     limit |-> <<"l", "i", "m", "i", "t">>,
     drop |-> <<"d", "r", "o", "p">>,
     delete |-> <<"d", "e", "l", "e", "t", "e">>,
     truncate |-> <<"t", "r", "u", "n", "c", "a", "t", "e">>,
     alter |-> <<"a", "l", "t", "e", "r">>,
     create |-> <<"c", "r", "e", "a", "t", "e">>,
     update |-> <<"u", "p", "d", "a", "t", "e">>,
     insert |-> <<"i", "n", "s", "e", "r", "t">>,
     SELECT |-> <<"S", "E", "L", "E", "C", "T">>,
     Select |-> <<"S", "e", "l", "e", "c", "t">>,
     with |-> <<"w", "i", "t", "h">>,
     LIMIT |-> <<"L", "I", "M", "I", "T">>,
     from |-> <<"f", "r", "o", "m">>,
     table |-> <<"t", "a", "b", "l", "e">>,
     regions |-> <<"r", "e", "g", "i", "o", "n", "s">>,
     name |-> <<"n", "a", "m", "e">>,
     speed_limit |-> <<"s", "p", "e", "e", "d", "_", "l", "i", "m", "i", "t">>,
     created_at |-> <<"c", "r", "e", "a", "t", "e", "d", "_", "a", "t">>,
     five |-> <<"5">>,
     thousand |-> <<"1", "0", "0", "0">>,
     semicolon |-> <<";">>,
     space |-> <<" ">>,
     tab |-> <<"\t">>,
     newline |-> <<"\n">>,
     file_separator |-> <<"">>,
     no_break_space |-> <<" ">>,
     ideographic_space |-> <<"U+3000">>]

\* A lexeme of a query: what the server's parser takes it for, and its text.
Lexeme(kind, text) == [kind |-> kind, text |-> text]

Space == Lexeme("space", Words.space)

\* The text of a query: the texts of its lexemes, one after the other.
RECURSIVE Text(_)
Text(q) == IF q = <<>> THEN <<>> ELSE Head(q).text \o Text(Tail(q))

\* The queries generate_sql_query may hand back: the empty text (the
\* default of line 137), or an optional leading blank, tab, newline, file
\* separator, no-break space or ideographic space (the last three are
\* whitespace to str.strip() and none to the server), a first word, a
\* column, FROM regions, an optional LIMIT 5, an optional second statement,
\* an optional closing newline or file separator.
QueryChoices ==
    LET QueryLeads ==
            {<<>>, <<Space>>, <<Lexeme("space", Words.tab)>>,
             <<Lexeme("space", Words.newline)>>,
             <<Lexeme("other", Words.file_separator)>>,
             <<Lexeme("other", Words.no_break_space)>>,
             <<Lexeme("other", Words.ideographic_space)>>}
        QueryTrails ==
            {<<>>, <<Lexeme("space", Words.newline)>>,
             <<Lexeme("other", Words.file_separator)>>}
        QueryHeads ==
            {Lexeme("keyword", Words.select), Lexeme("keyword", Words.SELECT),
             Lexeme("keyword", Words.Select), Lexeme("keyword", Words.delete),
             Lexeme("keyword", Words.with)}
        QueryColumns ==
            {Lexeme("identifier", Words.name),
             Lexeme("identifier", Words.speed_limit),
             Lexeme("identifier", Words.created_at)}
        QueryLimits ==
            {<<>>,
             <<Space, Lexeme("keyword", Words.limit), Space, Lexeme("number", Words.five)>>,
             <<Space, Lexeme("keyword", Words.LIMIT), Space, Lexeme("number", Words.five)>>}
        QuerySeconds ==
            {<<>>,
             <<Lexeme("punctuation", Words.semicolon), Space,
             Lexeme("keyword", Words.drop), Space,
             Lexeme("keyword", Words.table), Space,
             Lexeme("identifier", Words.regions)>>}
    IN {<<>>} \cup
       {lead \o <<head, Space, column, Space, Lexeme("keyword", Words.from), Space,
               Lexeme("identifier", Words.regions)>> \o limit \o second \o trail :
        lead \in QueryLeads, head \in QueryHeads, column \in QueryColumns,
        limit \in QueryLimits, second \in QuerySeconds, trail \in QueryTrails}

\* dangerous_keywords (line 257), in the order of the list.
dangerous_keywords ==
    <<Words.drop, Words.delete, Words.truncate, Words.alter, Words.create, Words.update, Words.insert>>

\* sql_lower = sql.lower().strip() (line 254)
sql_lower(sql) == StripSpaces(Lower(Text(sql)))

\* sql += ' LIMIT 1000' (line 275)
AddLimit(sql) ==
    sql \o <<Space, Lexeme("keyword", Words.LIMIT), Space, Lexeme("number", Words.thousand)>>

\* OpenAIAssistant.validate_sql (lines 244-280).  sql is None or Some
\* query; None has no lower(), and line 254 raises an AttributeError.  The
\* keyword of the error is the first of the list found in the text (lines
\* 259-260).
validate_sql(sql) ==
    IF IsNone(sql) THEN [raises |-> "AttributeError"]
    ELSE LET low == sql_lower(Get(sql))
             found == {i \in 1..Len(dangerous_keywords) :
                          Contains(dangerous_keywords[i], low)}
             first == dangerous_keywords[CHOOSE i \in found : \A j \in found : i <= j]
         IN IF found # {}
            THEN [valid |-> FALSE,
                  error |-> [message |-> "Query contains potentially dangerous operation",
                             keyword |-> Upper(first)]]
            ELSE IF ~StartsWith(low, Words.select)
            THEN [valid |-> FALSE,
                  error |-> [message |-> "Only SELECT queries are allowed for safety."]]
            ELSE IF ~Contains(Words.limit, low)
            THEN [valid |-> TRUE, sql |-> AddLimit(Get(sql))]
            ELSE [valid |-> TRUE, sql |-> Get(sql)]

\* One execute_ai_query: nothing else is running, the base data are the
\* seed scenario.
InitChat ==
    /\ today = 10
    /\ affected_regions = <<Region1>>
    /\ alerts = <<>>
    /\ resources = <<>>
    /\ distribution_log = <<>>
    /\ rainfall_data = <<>>
    /\ regions_readable = TRUE
    /\ collation = "case-insensitive"
    /\ reload_pc = "idle"
    /\ next_region_id = AutoIncrement
    /\ csv_sheets = Mirror
    /\ store = NoTable
    /\ clock = 0
    /\ output_csv = NotWritten
    /\ call = Idle
    /\ last = NoCall
    /\ reader = [read |-> FALSE]

\* The return of execute_ai_query: generated is the query of
\* generate_sql_query (a sequence of none or one), validation the result of
\* validate_sql (likewise), sent the queries passed to db.fetch_dataframe;
\* or, with raised, its ending with an exception.
AiReturn(generated, validation, sent, type, content) ==
    [NoCall EXCEPT !.op = "ai"]
    @@ [generated |-> generated, validation |-> validation, sent |-> sent,
        type |-> type, content |-> content]

\* execute_ai_query is called (line 304).
Ask ==
    /\ call = Idle
    /\ call' = [op |-> "ai", pc |-> "generate"]
    /\ last' = NoCall
    /\ UNCHANGED <<base, store, clock, output_csv, reader>>

\* Lines 308-316: generate_sql_query; an error result if it did not
\* succeed.  Its sql is result.get('sql', '') of the parsed answer
\* (openai_helper.py line 137): a text, or None for a JSON null.
Generate ==
    /\ call.op = "ai" /\ call.pc = "generate"
    /\ \/ /\ call' = Idle
          /\ last' = AiReturn(<<>>, <<>>, <<>>, "error",
                              [message |-> "Failed to generate query"])
       \/ \E sql \in {None} \cup {Some(q) : q \in QueryChoices} :
             /\ call' = [op |-> "ai", pc |-> "validate", sql |-> sql]
             /\ last' = last
    /\ UNCHANGED <<base, store, clock, output_csv, reader>>

\* Lines 321-329: validate_sql; an error result if the query is not valid.
\* The call is outside the try of line 332: what validate_sql raises,
\* execute_ai_query raises.
Validate ==
    /\ call.op = "ai" /\ call.pc = "validate"
    /\ \E v \in {validate_sql(call.sql)} :
          IF "raises" \in DOMAIN v
          THEN /\ call' = Idle
               /\ last' = [AiReturn(<<call.sql>>, <<>>, <<>>, "none", v)
                              EXCEPT !.raised = TRUE]
          ELSE IF v.valid
          THEN /\ call' = [call EXCEPT !.pc = "execute"] @@ [validation |-> v]
               /\ last' = last
          ELSE /\ call' = Idle
               /\ last' = AiReturn(<<call.sql>>, <<v>>, <<>>, "error", v.error)
    /\ UNCHANGED <<base, store, clock, output_csv, reader>>

\* Lines 329-360: db.fetch_dataframe(validation['sql']); a text result for
\* an empty frame (which is also what fetch_dataframe returns on a database
\* error), the response for a frame with rows, an error result for any
\* other exception.
ExecuteQuery ==
    /\ call.op = "ai" /\ call.pc = "execute"
    /\ \E outcome \in {"text", "ai_response", "error"} :
          last' = AiReturn(<<call.sql>>, <<call.validation>>,
                           <<call.validation.sql>>, outcome,
                           [message |-> outcome])
    /\ call' = Idle
    /\ UNCHANGED <<base, store, clock, output_csv, reader>>

NextChat == Ask \/ Generate \/ Validate \/ ExecuteQuery

SpecChat == InitChat /\ [][NextChat]_vars

\* execute_ai_query has returned after validate_sql accepted / rejected the
\* generated query.
AiAccepted ==
    /\ call = Idle /\ last.op = "ai"
    /\ last.validation # <<>> /\ last.validation[1].valid

AiRejected ==
    /\ call = Idle /\ last.op = "ai"
    /\ last.validation # <<>> /\ ~last.validation[1].valid

\* The query has a LIMIT clause: LIMIT as a keyword of its own.
HasLimitClause(q) ==
    \E i \in 1..Len(q) : q[i].kind = "keyword" /\ Lower(q[i].text) = Words.limit

\* The query, read without regard to letter case and surrounding blanks,
\* starts with select and contains none of the seven forbidden words.
SelectOnly(q) ==
    /\ StartsWith(sql_lower(q), Words.select)
    /\ \A i \in 1..Len(dangerous_keywords) :
          ~Contains(dangerous_keywords[i], sql_lower(q))

\* A query is sent to the database only by a call whose validate_sql
\* accepted the generated query, and it is the query validate_sql returned;
\* a rejected query is not sent and the call's result is an error.
GatedByValidation ==
    /\ (call.op = "ai" /\ call.pc = "execute")
       => /\ ~IsNone(call.sql)
          /\ validate_sql(call.sql).valid
    /\ (call = Idle /\ last.op = "ai")
       => /\ last.sent # <<>> => /\ AiAccepted
                                 /\ ~last.raised
                                 /\ last.sent = <<last.validation[1].sql>>
                                 /\ last.validation[1] = validate_sql(last.generated[1])
          /\ AiRejected => last.sent = <<>> /\ last.type = "error"

\* C30: a generated query reaches the database only after validate_sql has
\* accepted it; every accepted query starts with select, contains none of
\* drop, delete, truncate, alter, create, update, insert in any letter case,
\* and has a LIMIT clause when it is executed; a rejected query is never
\* executed and gives an error result.
C30_AiSqlGating ==
    /\ GatedByValidation
    /\ AiAccepted => /\ SelectOnly(last.sent[1])
                     /\ HasLimitClause(last.sent[1])

\* What holds of the LIMIT: the executed query contains the letters limit
\* somewhere, in a LIMIT clause or in a name; the rest of C30 holds as
\* stated.
C30_GatingWithLimitLetters ==
    /\ GatedByValidation
    /\ AiAccepted => /\ SelectOnly(last.sent[1])
                     /\ Contains(Words.limit, sql_lower(last.sent[1]))

====
